---------------------------- MODULE Spec2Model ----------------------------
(***************************************************************************)
(* Model of the Cisco APIC driver of neutron:                              *)
(*   - ApicSession (apic_client.py): the REST session with host failover,  *)
(*     login, refresh and the invalid-token retry;                         *)
(*   - APICManager (apic_manager.py): the "ensure created" workflows over  *)
(*     the managed-object access layer and the local DB (apic_model.py).   *)
(*                                                                         *)
(* SpecSession runs the session client one HTTP attempt at a time.         *)
(* Spec runs the manager one operation at a time, every remote call of an  *)
(* operation included, with the failures of the remote calls as inputs.    *)
(***************************************************************************)
EXTENDS Integers, Sequences, FiniteSets, TLC

None == "None"

(***************************************************************************)
(* Bounds of the model.                                                    *)
(***************************************************************************)
NumHosts == 3
MaxTime == 3

(***************************************************************************)
(* Program constants.                                                      *)
(***************************************************************************)
SafetyMargin == 5

VARIABLES
    \* ---- ApicSession fields
    api_base,          \* deque of controller base URLs; api_base[1] is api_base[0]
    cookie,            \* None for {}, else the token
    authentication,    \* None, or "attrs" for the attributes of the last login
    username,
    password,
    session_deadline,
    session_timeout,
    \* ---- the environment of the session
    now,               \* time.time()
    \* ---- the position of the caller inside the session code
    pc,                \* "idle" | "refresh" | "login" | "send"
    tries,             \* attempts already made by the running _do_request
    refreshed,         \* the refreshed argument of the running _send
    after,             \* what the running login() returns to
    op,                \* the public operation in progress
    loginArgs,         \* usr, pwd of the running login()
    \* ---- observations of the operation in progress / last finished
    attempts,          \* hosts the running _do_request has tried and failed on, in order
    done,              \* the last finished _do_request: failed hosts, answering host, error
    trace,             \* the _do_request calls of the operation, in order
    result,            \* how the last public operation ended
    \* ---- the controller and the local DB
    apic,              \* the managed objects the controller holds
    epg_db,            \* the NetworkEPG rows
    contract_db,       \* the router contract rows
    \* ---- APICManager fields
    mgr,               \* vlan_ns, phys_domain, entity_profile, function_profile
    clear_node_profiles,
    \* ---- the environment of the manager
    uuid,              \* how many uuid4() values have been drawn
    faults,            \* how many operations had a request fail
    workload,          \* the side of the manager the callers of this behaviour use
    \* ---- observations of the last manager operation
    last,
    \* ---- two callers that share the session: the position of each inside
    \* the session code
    callers,
    \* ---- ApicDbModel under concurrent use: the session's pending changes,
    \* the rows, the lock 'apic_manager_flush', the position of each thread
    store,
    \* ---- a call of a function of the driver: its name, arguments and value
    calc,
    \* ---- ManagedObjectClass.__new__ under concurrent use
    registry,
    \* ---- ApicL3ServicePlugin: the calls of one plugin operation
    l3,
    \* ---- ApicTopologyService and the host links of the manager: the peers,
    \* the HostLink and PortProfile rows, the objects of the switches
    topo,
    \* ---- Ndfc: the persisted map of network ids, the position of each caller
    ndfc,
    \* ---- get_router_contract under concurrent use
    race

svars == <<api_base, cookie, authentication, username, password,
           session_deadline, session_timeout, now, pc, tries, refreshed,
           after, op, loginArgs, attempts, done, trace, result>>

evars == <<apic, epg_db, contract_db, mgr, clear_node_profiles, uuid, faults,
           workload, last, callers, store, calc, registry, l3, topo, ndfc, race>>

vars == <<svars, evars>>

(***************************************************************************)
(* Values the environment supplies.                                        *)
(***************************************************************************)
Hosts == 1..NumHosts
FALLBACK_EXCEPTIONS == {"ConnectionError", "Timeout", "TooManyRedirects", "InvalidURL"}
Tokens == {"tokA", "tokB"}
ServerTimeouts == {6, 7}      \* refreshTimeoutSeconds the server may answer
Users == {"admin"}
Passwords == {"pw", "pw2"}
Requests == {"GET /mo/a.json", "POST /mo/b.json"}
\* what a data request or a refresh may be answered with
DataResponses == {"ok", "token_invalid", "other_error"}

\* host is 0 when no address answered
NoCall == [failed |-> <<>>, host |-> 0, err |-> None]

Rotate(q) == Tail(q) \o <<Head(q)>>

\* ApicSession.__init__ before the optional login
SessionInit ==
    /\ api_base = [i \in 1..NumHosts |-> i]
    /\ cookie = None
    /\ authentication = None
    /\ username = None
    /\ password = None
    /\ session_deadline = 0
    /\ session_timeout = 0
    /\ now = 0
    /\ pc = "idle"
    /\ tries = 0
    /\ refreshed = FALSE
    /\ after = None
    /\ op = [kind |-> None, req |-> None]
    /\ loginArgs = <<None, None>>
    /\ attempts = <<>>
    /\ done = NoCall
    /\ trace = <<>>
    /\ result = None

(***************************************************************************)
(* ApicSession._do_request: one HTTP attempt per step.  tries counts the   *)
(* failed attempts of the running call: the loop makes Len(api_base)       *)
(* guarded attempts, the statement after the loop one unguarded attempt.   *)
(***************************************************************************)
\* a loop that stops one iteration early
LoopBound_Short(q) == Len(q) - 1
\* a loop that makes one iteration more
LoopBound_Long(q) == Len(q) + 1

LoopBound(q) == Len(q)

\* a fallback that keeps the failed address
NextBase_NoRotate(q) == q

NextBase(q) == Rotate(q)

\* a _do_request call begins
StartRequest(label) ==
    /\ pc' = label
    /\ tries' = 0

\* a public operation ends, returning or raising res
Finish(res) ==
    /\ pc' = "idle"
    /\ result' = res

\* the record of a finished _do_request call: what was sent, the hosts tried
\* in order, the host that answered (0 when the call raised), the outcome;
\* timeout is the refreshTimeoutSeconds of a 200 answer to aaaLogin or
\* aaaRefresh, and 0 for any other answer
CallRecord(outcome, tmo) ==
    [call |-> pc,
     req |-> IF pc = "send" THEN op.req ELSE IF pc = "login" THEN "aaaLogin" ELSE "aaaRefresh",
     outcome |-> outcome,
     timeout |-> IF pc \in {"login", "refresh"} /\ outcome = "ok" THEN tmo ELSE 0]

\* a _do_request call returns the answer of api_base[0]
Answered(outcome, tmo) ==
    /\ trace' = Append(trace, CallRecord(outcome, tmo))
    /\ done' = [failed |-> attempts, host |-> Head(api_base), err |-> None]
    /\ attempts' = <<>>

\* what login() turns the exception of its _do_request into
LoginException(e) == IF e = "Timeout" THEN "ApicHostNoResponse" ELSE e

\* an attempt raises one of FALLBACK_EXCEPTIONS
AttemptFails(e) ==
    /\ UNCHANGED evars
    /\ pc \in {"refresh", "login", "send"}
    /\ IF tries < LoopBound(api_base)
       THEN /\ api_base' = NextBase(api_base)
            /\ tries' = tries + 1
            /\ attempts' = Append(attempts, Head(api_base))
            /\ UNCHANGED <<cookie, authentication, username, password,
                           session_deadline, session_timeout, now, pc, refreshed,
                           after, op, loginArgs, done, trace, result>>
       ELSE /\ Finish(IF pc = "login" THEN LoginException(e) ELSE e)
            /\ trace' = Append(trace, CallRecord("raised", 0))
            /\ done' = [failed |-> Append(attempts, Head(api_base)), host |-> 0,
                        err |-> e]
            /\ attempts' = <<>>
            /\ UNCHANGED <<api_base, cookie, authentication, username, password,
                           session_deadline, session_timeout, now, tries, refreshed,
                           after, op, loginArgs>>

(***************************************************************************)
(* login(): the part before the request.                                   *)
(***************************************************************************)
\* a _save_cookie without the margin
SaveCookie_NoMargin(tok, tmo) ==
    /\ cookie' = tok
    /\ session_timeout' = tmo
    /\ session_deadline' = now + tmo

\* a login() that submits what it was called with
BeginLogin_Forgetful(usr, pwd, ret) ==
    /\ loginArgs' = <<usr, pwd>>
    /\ cookie' = None
    /\ after' = ret
    /\ StartRequest("login")

\* a login() that keeps the old cookie while it asks for a new one
BeginLogin_KeepCookie(usr, pwd, ret) ==
    /\ loginArgs' = <<IF usr # None THEN usr ELSE username,
                      IF pwd # None THEN pwd ELSE password>>
    /\ cookie' = cookie
    /\ after' = ret
    /\ StartRequest("login")

BeginLogin(usr, pwd, ret) ==
    /\ loginArgs' = <<IF usr # None THEN usr ELSE username,
                      IF pwd # None THEN pwd ELSE password>>
    /\ cookie' = None
    /\ after' = ret
    /\ StartRequest("login")

\* _send is entered (the first time, or again after the re-login)
BeginSend(flag) ==
    /\ refreshed' = flag
    /\ StartRequest("send")

\* _save_cookie on a 200 answer
SaveCookie(tok, tmo) ==
    /\ cookie' = tok
    /\ session_timeout' = tmo - SafetyMargin
    /\ session_deadline' = now + (tmo - SafetyMargin)

\* login(): the server answers the aaaLogin post; it accepts no login that
\* lacks the name or the password
LoginResponds(accepted, tok, tmo) ==
    /\ UNCHANGED evars
    /\ pc = "login"
    /\ accepted => (loginArgs[1] # None /\ loginArgs[2] # None)
    /\ Answered(IF accepted THEN "ok" ELSE "rejected", tmo)
    /\ IF accepted
       THEN /\ SaveCookie(tok, tmo)
            /\ username' = loginArgs[1]
            /\ password' = loginArgs[2]
            /\ authentication' = "attrs"
            /\ CASE after = "public" ->
                      /\ Finish("ok")
                      /\ UNCHANGED <<tries, refreshed>>
                 [] after = "refresh" -> BeginSend(FALSE) /\ UNCHANGED result
                 [] after = "resend" -> BeginSend(TRUE) /\ UNCHANGED result
            /\ UNCHANGED <<api_base, now, after, op, loginArgs>>
       ELSE /\ authentication' = None
            /\ Finish("ApicResponseNotOk")
            /\ UNCHANGED <<api_base, cookie, username, password, session_deadline,
                           session_timeout, now, tries, refreshed, after, op,
                           loginArgs>>

(***************************************************************************)
(* refresh(): the server answers the aaaRefresh get.                       *)
(***************************************************************************)
\* a refresh that never logs in again
ReloginOnInvalidToken_Never(r) == FALSE

\* err_code == APIC_CODE_FORBIDDEN and the text starts with 'token was invalid'
ReloginOnInvalidToken(r) == r = "token_invalid"

RefreshResponds(r, tok, tmo) ==
    /\ UNCHANGED evars
    /\ pc = "refresh"
    /\ Answered(r, tmo)
    /\ CASE r = "ok" ->
              /\ SaveCookie(tok, tmo)
              /\ authentication' = "attrs"
              /\ BeginSend(FALSE)
              /\ UNCHANGED <<api_base, username, password, now, after, op,
                             loginArgs, result>>
         [] r # "ok" /\ ReloginOnInvalidToken(r) ->
              /\ BeginLogin(None, None, "refresh")
              /\ UNCHANGED <<api_base, authentication, username, password,
                             session_deadline, session_timeout, now, refreshed,
                             op, result>>
         [] OTHER ->
              /\ authentication' = None
              /\ Finish("ApicResponseNotOk")
              /\ UNCHANGED <<api_base, cookie, username, password, session_deadline,
                             session_timeout, now, tries, refreshed, after, op,
                             loginArgs>>

(***************************************************************************)
(* _send: the server answers the data request.                             *)
(***************************************************************************)
\* a retry that forgets the refreshed flag
RetryOnInvalidToken_Always(r, flag) == r = "token_invalid"

\* the condition of the single re-login and retry
RetryOnInvalidToken(r, flag) == ~flag /\ r = "token_invalid"

SendResponds(r) ==
    /\ UNCHANGED evars
    /\ pc = "send"
    /\ Answered(r, 0)
    /\ session_deadline' = now + session_timeout
    /\ CASE r = "ok" ->
              /\ Finish("ok")
              \* logout(): the statement after post_data
              /\ authentication' = IF op.kind = "logout" THEN None ELSE authentication
              /\ UNCHANGED <<api_base, cookie, username, password, session_timeout,
                             now, tries, refreshed, after, op, loginArgs>>
         [] RetryOnInvalidToken(r, refreshed) ->
              /\ BeginLogin(None, None, "resend")
              /\ UNCHANGED <<api_base, authentication, username, password,
                             session_timeout, now, refreshed, op, result>>
         [] OTHER ->
              /\ Finish("ApicResponseNotOk")
              /\ UNCHANGED <<api_base, cookie, authentication, username, password,
                             session_timeout, now, tries, refreshed, after, op,
                             loginArgs>>

(***************************************************************************)
(* The public operations, up to their first HTTP request.                  *)
(***************************************************************************)
\* a _check_session without its first test
CheckSessionAndSend_Unchecked ==
    /\ result' = None
    /\ IF now > session_deadline
       THEN StartRequest("refresh") /\ UNCHANGED refreshed
       ELSE BeginSend(FALSE)

\* a _check_session that refreshes at the deadline already
CheckSessionAndSend_Eager ==
    IF authentication = None
    THEN /\ Finish("ApicSessionNotLoggedIn")
         /\ UNCHANGED <<tries, refreshed>>
    ELSE /\ result' = None
         /\ IF now >= session_deadline
            THEN StartRequest("refresh") /\ UNCHANGED refreshed
            ELSE BeginSend(FALSE)

\* _check_session, then _send
CheckSessionAndSend ==
    IF authentication = None
    THEN /\ Finish("ApicSessionNotLoggedIn")
         /\ UNCHANGED <<tries, refreshed>>
    ELSE /\ result' = None
         /\ IF now > session_deadline
            THEN StartRequest("refresh") /\ UNCHANGED refreshed
            ELSE BeginSend(FALSE)

\* get_data, get_mo, get_mo_subtree, list_mo, post_data, post_mo
DataRequest(req) ==
    /\ UNCHANGED evars
    /\ pc = "idle"
    /\ op' = [kind |-> "data", req |-> req]
    /\ trace' = <<>>
    /\ CheckSessionAndSend
    /\ UNCHANGED <<api_base, cookie, authentication, username, password,
                   session_deadline, session_timeout, now, after, loginArgs,
                   attempts, done>>

Login(usr, pwd) ==
    /\ UNCHANGED evars
    /\ pc = "idle"
    /\ op' = [kind |-> "login", req |-> None]
    /\ trace' = <<>>
    /\ BeginLogin(usr, pwd, "public")
    /\ result' = None
    /\ UNCHANGED <<api_base, authentication, username, password, session_deadline,
                   session_timeout, now, refreshed, attempts, done>>

Logout ==
    /\ UNCHANGED evars
    /\ pc = "idle"
    /\ trace' = <<>>
    /\ op' = [kind |-> "logout", req |-> "POST /aaaLogout.json"]
    /\ IF username # None /\ authentication # None
       THEN /\ CheckSessionAndSend
            /\ UNCHANGED authentication
       ELSE /\ authentication' = None
            /\ Finish("ok")
            /\ UNCHANGED <<tries, refreshed>>
    /\ UNCHANGED <<api_base, cookie, username, password, session_deadline,
                   session_timeout, now, after, loginArgs, attempts, done>>

\* time passes, also while a request is in flight
Tick ==
    /\ UNCHANGED evars
    /\ now < MaxTime
    /\ now' = now + 1
    /\ UNCHANGED <<api_base, cookie, authentication, username, password,
                   session_deadline, session_timeout, pc, tries, refreshed,
                   after, op, loginArgs, attempts, done, trace, result>>

SessionNext ==
    \/ \E e \in FALLBACK_EXCEPTIONS : AttemptFails(e)
    \/ \E a \in BOOLEAN, tok \in Tokens, tmo \in ServerTimeouts : LoginResponds(a, tok, tmo)
    \/ \E r \in DataResponses, tok \in Tokens, tmo \in ServerTimeouts : RefreshResponds(r, tok, tmo)
    \/ \E r \in DataResponses : SendResponds(r)
    \/ \E req \in Requests : DataRequest(req)
    \/ \E usr \in Users \cup {None}, pwd \in Passwords \cup {None} : Login(usr, pwd)
    \/ Logout
    \/ Tick

(***************************************************************************)
(* ManagedObjectClass: the class table and what __init__ derives from it.  *)
(* An rn_fmt is kept as the literal pieces around its %s slots.            *)
(***************************************************************************)
ManagedObjectName(container, rn_fmt, can_create) ==
    [container |-> container, rn_fmt |-> rn_fmt, can_create |-> can_create]

supported_mos ==
    [fvTenant |-> ManagedObjectName(None, <<"tn-", "">>, TRUE),
     fvBD |-> ManagedObjectName("fvTenant", <<"BD-", "">>, TRUE),
     fvRsBd |-> ManagedObjectName("fvAEPg", <<"rsbd">>, TRUE),
     fvSubnet |-> ManagedObjectName("fvBD", <<"subnet-[", "]">>, TRUE),
     fvCtx |-> ManagedObjectName("fvTenant", <<"ctx-", "">>, TRUE),
     fvRsCtx |-> ManagedObjectName("fvBD", <<"rsctx">>, TRUE),
     fvAp |-> ManagedObjectName("fvTenant", <<"ap-", "">>, TRUE),
     fvAEPg |-> ManagedObjectName("fvAp", <<"epg-", "">>, TRUE),
     fvRsProv |-> ManagedObjectName("fvAEPg", <<"rsprov-", "">>, TRUE),
     fvRsCons |-> ManagedObjectName("fvAEPg", <<"rscons-", "">>, TRUE),
     fvRsConsIf |-> ManagedObjectName("fvAEPg", <<"rsconsif-", "">>, TRUE),
     fvRsDomAtt |-> ManagedObjectName("fvAEPg", <<"rsdomAtt-[", "]">>, TRUE),
     fvRsPathAtt |-> ManagedObjectName("fvAEPg", <<"rspathAtt-[", "]">>, TRUE),
     vzAny |-> ManagedObjectName("fvCtx", <<"any">>, TRUE),
     vzRsAnyToCons |-> ManagedObjectName("vzAny", <<"rsanyToCons-", "">>, TRUE),
     vzRsAnyToProv |-> ManagedObjectName("vzAny", <<"rsanyToProv-", "">>, TRUE),
     vzBrCP |-> ManagedObjectName("fvTenant", <<"brc-", "">>, TRUE),
     vzSubj |-> ManagedObjectName("vzBrCP", <<"subj-", "">>, TRUE),
     vzFilter |-> ManagedObjectName("fvTenant", <<"flt-", "">>, TRUE),
     vzRsFiltAtt |-> ManagedObjectName("vzSubj", <<"rsfiltAtt-", "">>, TRUE),
     vzEntry |-> ManagedObjectName("vzFilter", <<"e-", "">>, TRUE),
     vzInTerm |-> ManagedObjectName("vzSubj", <<"intmnl">>, TRUE),
     vzRsFiltAtt__In |-> ManagedObjectName("vzInTerm", <<"rsfiltAtt-", "">>, TRUE),
     vzOutTerm |-> ManagedObjectName("vzSubj", <<"outtmnl">>, TRUE),
     vzRsFiltAtt__Out |-> ManagedObjectName("vzOutTerm", <<"rsfiltAtt-", "">>, TRUE),
     vzRsSubjFiltAtt |-> ManagedObjectName("vzSubj", <<"rssubjFiltAtt-", "">>, TRUE),
     vzCPIf |-> ManagedObjectName("fvTenant", <<"cif-", "">>, TRUE),
     vzRsIf |-> ManagedObjectName("vzCPIf", <<"rsif">>, TRUE),
     l3extOut |-> ManagedObjectName("fvTenant", <<"out-", "">>, TRUE),
     l3extRsEctx |-> ManagedObjectName("l3extOut", <<"rsectx">>, TRUE),
     l3extLNodeP |-> ManagedObjectName("l3extOut", <<"lnodep-", "">>, TRUE),
     l3extRsNodeL3OutAtt |-> ManagedObjectName("l3extLNodeP", <<"rsnodeL3OutAtt-[", "]">>, TRUE),
     ipRouteP |-> ManagedObjectName("l3extRsNodeL3OutAtt", <<"rt-[", "]">>, TRUE),
     ipNexthopP |-> ManagedObjectName("ipRouteP", <<"nh-[", "]">>, TRUE),
     l3extLIfP |-> ManagedObjectName("l3extLNodeP", <<"lifp-", "">>, TRUE),
     l3extRsPathL3OutAtt |-> ManagedObjectName("l3extLIfP", <<"rspathL3OutAtt-[", "]">>, TRUE),
     l3extInstP |-> ManagedObjectName("l3extOut", <<"instP-", "">>, TRUE),
     fvRsCons__Ext |-> ManagedObjectName("l3extInstP", <<"rscons-", "">>, TRUE),
     fvRsProv__Ext |-> ManagedObjectName("l3extInstP", <<"rsprov-", "">>, TRUE),
     fvCollectionCont |-> ManagedObjectName("fvRsCons", <<"collectionDn-[", "]">>, TRUE),
     l3extSubnet |-> ManagedObjectName("l3extInstP", <<"extsubnet-[", "]">>, TRUE),
     vmmProvP |-> ManagedObjectName(None, <<"vmmp-", "">>, FALSE),
     vmmDomP |-> ManagedObjectName("vmmProvP", <<"dom-", "">>, TRUE),
     vmmEpPD |-> ManagedObjectName("vmmDomP", <<"eppd-[", "]">>, TRUE),
     physDomP |-> ManagedObjectName(None, <<"phys-", "">>, TRUE),
     infra |-> ManagedObjectName(None, <<"infra">>, TRUE),
     infraNodeP |-> ManagedObjectName("infra", <<"nprof-", "">>, TRUE),
     infraLeafS |-> ManagedObjectName("infraNodeP", <<"leaves-", "-typ-", "">>, TRUE),
     infraNodeBlk |-> ManagedObjectName("infraLeafS", <<"nodeblk-", "">>, TRUE),
     infraRsAccPortP |-> ManagedObjectName("infraNodeP", <<"rsaccPortP-[", "]">>, TRUE),
     infraAccPortP |-> ManagedObjectName("infra", <<"accportprof-", "">>, TRUE),
     infraHPortS |-> ManagedObjectName("infraAccPortP", <<"hports-", "-typ-", "">>, TRUE),
     infraPortBlk |-> ManagedObjectName("infraHPortS", <<"portblk-", "">>, TRUE),
     infraRsAccBaseGrp |-> ManagedObjectName("infraHPortS", <<"rsaccBaseGrp">>, TRUE),
     infraFuncP |-> ManagedObjectName("infra", <<"funcprof">>, TRUE),
     infraAccPortGrp |-> ManagedObjectName("infraFuncP", <<"accportgrp-", "">>, TRUE),
     infraRsAttEntP |-> ManagedObjectName("infraAccPortGrp", <<"rsattEntP">>, TRUE),
     infraAttEntityP |-> ManagedObjectName("infra", <<"attentp-", "">>, TRUE),
     infraRsDomP |-> ManagedObjectName("infraAttEntityP", <<"rsdomP-[", "]">>, TRUE),
     infraRsVlanNs |-> ManagedObjectName("physDomP", <<"rsvlanNs">>, TRUE),
     fvnsVlanInstP |-> ManagedObjectName("infra", <<"vlanns-", "-", "">>, TRUE),
     fvnsEncapBlk__vlan |-> ManagedObjectName("fvnsVlanInstP", <<"from-", "-to-", "">>, TRUE),
     fvnsVxlanInstP |-> ManagedObjectName("infra", <<"vxlanns-", "">>, TRUE),
     fvnsEncapBlk__vxlan |-> ManagedObjectName("fvnsVxlanInstP", <<"from-", "-to-", "">>, TRUE),
     fabric |-> ManagedObjectName(None, <<"fabric">>, FALSE),
     bgpInstPol |-> ManagedObjectName("fabric", <<"bgpInstP-", "">>, TRUE),
     bgpRRP |-> ManagedObjectName("bgpInstPol", <<"rr">>, TRUE),
     bgpRRNodePEp |-> ManagedObjectName("bgpRRP", <<"node-", "">>, TRUE),
     bgpAsP |-> ManagedObjectName("bgpInstPol", <<"as">>, TRUE),
     funcprof |-> ManagedObjectName("fabric", <<"funcprof">>, FALSE),
     fabricPodPGrp |-> ManagedObjectName("funcprof", <<"podpgrp-", "">>, TRUE),
     fabricRsPodPGrpBGPRRP |-> ManagedObjectName("fabricPodPGrp", <<"rspodPGrpBGPRRP">>, TRUE),
     fabricPodP |-> ManagedObjectName("fabric", <<"podprof-default">>, TRUE),
     fabricPodS__ALL |-> ManagedObjectName("fabricPodP", <<"pods-", "-typ-ALL">>, TRUE),
     fabricRsPodPGrp |-> ManagedObjectName("fabricPodS__ALL", <<"rspodPGrp">>, TRUE),
     fabricTopology |-> ManagedObjectName(None, <<"topology">>, FALSE),
     fabricPod |-> ManagedObjectName("fabricTopology", <<"pod-", "">>, FALSE),
     fabricPathEpCont |-> ManagedObjectName("fabricPod", <<"paths-", "">>, FALSE),
     fabricPathEp |-> ManagedObjectName("fabricPathEpCont", <<"pathep-", "">>, FALSE),
     fabricNode |-> ManagedObjectName("fabricPod", <<"node-", "">>, FALSE)]

container_Cyclic(c) == IF c = "fvTenant" THEN "fvAEPg" ELSE supported_mos[c].container
container(c) == supported_mos[c].container
rn_fmt(c) == supported_mos[c].rn_fmt
\* rn_fmt.count('%s')
rn_has_param(c) == Len(rn_fmt(c)) - 1
can_create_FlagOnly(c) == supported_mos[c].can_create
can_create(c) == rn_has_param(c) > 0 /\ supported_mos[c].can_create

\* dn_fmt.count('%s'): the slots of the class and of all its containers
RECURSIVE param_count(_)
param_count(c) ==
    rn_has_param(c) + IF container(c) = None THEN 0 ELSE param_count(container(c))

\* fmt % params
RECURSIVE Format(_, _)
Format(fmt, params) ==
    IF Len(fmt) = 1 THEN fmt[1]
    ELSE fmt[1] \o params[1] \o Format(Tail(fmt), Tail(params))

\* ManagedObjectClass.dn: dn_fmt % params, dn_fmt built by _dn_fmt
RECURSIVE dn(_, _)
dn(c, params) ==
    IF container(c) = None
    THEN "uni/" \o Format(rn_fmt(c), params)
    ELSE dn(container(c), SubSeq(params, 1, param_count(container(c))))
           \o "/"
           \o Format(rn_fmt(c), SubSeq(params, param_count(container(c)) + 1, Len(params)))

(***************************************************************************)
(* The manager runs one operation per step.  An operation is evaluated on  *)
(* a record m that carries the controller's objects, the DB rows, the      *)
(* manager's fields, the log of writes, and the exception in flight.       *)
(* The inputs of a step are the failures of its HTTP requests: request     *)
(* number plan.at raises plan.kind, every later request of the operation   *)
(* (those of the except blocks) ends as plan.rb says.                      *)
(***************************************************************************)
MaxFaultAt == 26      \* the longest operation issues 26 requests
MaxUuid == 2          \* uuid4() values drawn in one behaviour
MaxFaults == 1        \* operations of one behaviour in which a request fails

TENANT_COMMON == "common"
SCOPE_GLOBAL == "global"
SCOPE_TENANT == "tenant"
CONTEXT_ENFORCED == "1"
CONTEXT_DEFAULT == "default"
CP_SUBJ == "os-subject"
CP_FILTER == "os-filter"
CP_ENTRY == "os-entry"
CP_INTERFACE == "os-interface"

\* apic_config and network_config
app_profile_name == "openstack_app"
apic_vlan_ns_name == "openstack_ns"
apic_domain_name == "openstack"
apic_entity_profile == "openstack_entity"
apic_function_profile == "openstack_function"
vlan_min == "2"
vlan_max == "4093"

Tenants == {"tenantA"}
Owners == {TENANT_COMMON, "tenantA"}
Networks == {"net-42"}
Routers == {"router-1"}

\* errors of a request: a rejection by the controller, or no endpoint reachable
RequestErrors == {"ApicResponseNotOk", "ConnectionError"}
\* the process stops at a request: no handler runs, and the next call is made
\* on a manager constructed anew
Stopped == "Stopped"
\* except (cexc.ApicResponseNotOk, KeyError)
HandledExceptions == {"ApicResponseNotOk", "KeyError"}

NoExc == [kind |-> None, at |-> 0]
NoPlan == [at |-> 0, kind |-> "ApicResponseNotOk", rb |-> "ok"]
Plans ==
    {NoPlan}
    \cup [at : 1..MaxFaultAt, kind : {"ApicResponseNotOk"}, rb : {"ok"} \cup RequestErrors]
    \cup [at : 1..MaxFaultAt, kind : {"ConnectionError", Stopped}, rb : {"ok"}]

NoFields == [vlan_ns |-> {}, phys_domain |-> {}, entity_profile |-> {},
             function_profile |-> {}]

Begin(plan) ==
    [apic |-> apic, epg_db |-> epg_db, contract_db |-> contract_db, mgr |-> mgr,
     uuid |-> uuid, log |-> <<>>, n |-> 0, exc |-> NoExc, val |-> {}, arg |-> {},
     faulted |-> FALSE, first |-> NoExc, logged |-> {}, undone |-> {}, plan |-> plan]

Raising(m) == m.exc.kind # None
\* how the next request of the operation ends
Outcome(m) ==
    IF m.faulted THEN m.plan.rb
    ELSE IF m.n + 1 = m.plan.at THEN m.plan.kind ELSE "ok"
\* the request raises
Fail(m, kind) ==
    [m EXCEPT !.n = @ + 1,
              !.exc = [kind |-> kind, at |-> m.n + 1],
              !.first = IF m.faulted THEN @ ELSE [kind |-> kind, at |-> m.n + 1],
              !.faulted = TRUE]
\* a statement of the manager raises
Raise(m, kind) == IF Raising(m) THEN m ELSE [m EXCEPT !.exc = [kind |-> kind, at |-> 0]]

(***************************************************************************)
(* The controller: a post with status deleted removes the object and what  *)
(* it contains, any other post creates the object or sets its attribute;   *)
(* deleting an absent object is no error.                                  *)
(***************************************************************************)
Mo(c, params, attr) == [cls |-> c, params |-> params, attr |-> attr]
Lookup(objs, c, params) == {o \in objs : o.cls = c /\ o.params = params}

RECURSIVE Within(_, _, _, _)
\* the object (c, params) is (c0, params0) or is contained in it
Within(c, params, c0, params0) ==
    \/ c = c0 /\ params = params0
    \/ /\ container(c) # None
       /\ Within(container(c), SubSeq(params, 1, param_count(container(c))), c0, params0)

ControllerApply(objs, c, params, status, attr) ==
    IF status = "deleted"
    THEN {o \in objs : ~Within(o.cls, o.params, c, params)}
    ELSE IF attr = None /\ Lookup(objs, c, params) # {}
         THEN objs
         ELSE (objs \ Lookup(objs, c, params))
                \cup {Mo(c, params, IF attr = None THEN "" ELSE attr)}

(***************************************************************************)
(* ApicSession.post_mo / get_mo and ManagedObjectAccess.                   *)
(***************************************************************************)
post_mo(m, c, params, status, attr) ==
    IF Raising(m) THEN m
    ELSE IF Outcome(m) # "ok" THEN Fail(m, Outcome(m))
    ELSE [m EXCEPT !.n = @ + 1,
                   !.apic = ControllerApply(@, c, params, status, attr),
                   !.log = Append(@, [cls |-> c, params |-> params,
                                      status |-> status, attr |-> attr])]

\* get: the attributes of the object, or None (the empty set)
get(m, c, params) ==
    IF Raising(m) THEN m
    ELSE IF Outcome(m) # "ok" THEN Fail(m, Outcome(m))
    ELSE [m EXCEPT !.n = @ + 1, !.val = Lookup(m.apic, c, params)]

RECURSIVE create_container(_, _, _)
create_container(m, c, params) ==
    IF container(c) # None /\ can_create(container(c))
    THEN LET k == container(c)
             container_params == SubSeq(params, 1, param_count(k))
         IN  post_mo(create_container(m, k, container_params), k, container_params,
                     None, None)
    ELSE m

create(m, c, params, attr) ==
    post_mo(create_container(m, c, params), c, params,
            IF can_create(c) THEN "created" ELSE None, attr)

update(m, c, params, attr) == post_mo(m, c, params, None, attr)

delete(m, c, params) == post_mo(m, c, params, "deleted", None)

create_if_not_exist(m, c, params, attr) ==
    LET g == get(m, c, params)
    IN  IF Raising(g) \/ g.val # {} THEN g ELSE create(g, c, params, attr)

(***************************************************************************)
(* excutils.save_and_reraise_exception: the exception that leaves the with *)
(* block when the block ended with raised (NoExc when it ended normally).  *)
(***************************************************************************)
save_and_reraise_exception(saved, raised) == saved

\* an except block that lets the failure of its delete escape
ExceptDelete_Unsaved(m, c, params) ==
    IF m.exc.kind \in HandledExceptions
    THEN LET h == delete([m EXCEPT !.exc = NoExc], c, params)
         IN  [h EXCEPT !.exc = IF Raising(h) THEN h.exc ELSE m.exc,
                       !.logged = IF Raising(h) THEN @ \cup {h.exc} ELSE @,
                       !.undone = IF Raising(h) THEN @ ELSE @ \cup {<<c, params>>}]
    ELSE m

\* except (cexc.ApicResponseNotOk, KeyError):
\*     with excutils.save_and_reraise_exception(): mo.delete(*params)
ExceptDelete(m, c, params) ==
    IF m.exc.kind \in HandledExceptions
    THEN LET h == delete([m EXCEPT !.exc = NoExc], c, params)
         IN  [h EXCEPT !.exc = save_and_reraise_exception(m.exc, h.exc),
                       !.logged = IF Raising(h) THEN @ \cup {h.exc} ELSE @,
                       !.undone = IF Raising(h) THEN @ ELSE @ \cup {<<c, params>>}]
    ELSE m

(***************************************************************************)
(* ApicDbModel.  The router contract rows are keyed by router and hold the *)
(* (tenant, contract, filter) triple.                                      *)
(***************************************************************************)
DbEntry(what, key) == [cls |-> "db", params |-> <<what, key>>, status |-> "row", attr |-> None]

get_epg_for_network(m, network_id) == {e \in m.epg_db : e.network_id = network_id}

write_epg_for_network(m, network_id, epg_uid) ==
    [m EXCEPT !.epg_db = @ \cup {[network_id |-> network_id, epg_id |-> epg_uid]},
              !.log = Append(@, DbEntry("epg", network_id)),
              !.val = {[network_id |-> network_id, epg_id |-> epg_uid]}]

\* the row in hand is deleted
delete_epg(m) == [m EXCEPT !.epg_db = @ \ m.val]

get_contract_for_router(m, router_id) == {r \in m.contract_db : r.router_id = router_id}

write_contract_for_router(m, tenant_id, router_id, contract_id, filter_id) ==
    [m EXCEPT !.contract_db = @ \cup {[router_id |-> router_id, tenant_id |-> tenant_id,
                                       contract_id |-> contract_id,
                                       filter_id |-> filter_id]},
              !.log = Append(@, DbEntry("contract", router_id))]

delete_contract_for_router(m, router_id) ==
    [m EXCEPT !.contract_db = {r \in @ : r.router_id # router_id}]

(***************************************************************************)
(* The statements the manager's methods are made of.  A method is the list *)
(* of its statements; Exec runs a list on m, a statement being skipped     *)
(* while an exception is in flight.  "The value in hand" is m.val, what    *)
(* the last get or DB lookup returned; a statement names a value by "val", *)
(* by "arg" (the value kept by Keep) or by a field of the manager.         *)
(***************************************************************************)
Stmt(do, c, params, attr, f, body, orelse) ==
    [do |-> do, c |-> c, params |-> params, attr |-> attr, f |-> f,
     body |-> body, orelse |-> orelse]

\* mo.create(*params, **attr), mo.get, mo.delete, mo.update
Create(c, params, attr) == Stmt("create", c, params, attr, None, <<>>, <<>>)
Get(c, params) == Stmt("get", c, params, None, None, <<>>, <<>>)
Delete(c, params) == Stmt("delete", c, params, None, None, <<>>, <<>>)
Update(c, params, attr) == Stmt("update", c, params, attr, None, <<>>, <<>>)
\* self._create_if_not_exist(mo, *params, **attr)
CreateIfNotExist(c, params, attr) ==
    Stmt("create_if_not_exist", c, params, attr, None, <<>>, <<>>)
\* mo.create(*params, x[DN_KEY]), the subscript taken by an earlier Subscript
CreateUnderDn(c, params, f) == Stmt("create_under_dn", c, params, None, f, <<>>, <<>>)
\* mo.create(*params, tDn=x[DN_KEY])
CreateWithTDn(c, params, f) == Stmt("create_with_tDn", c, params, None, f, <<>>, <<>>)
\* x[key]: raises TypeError when x is None
Subscript(f) == Stmt("subscript", None, <<>>, None, f, <<>>, <<>>)
\* self.f = <the value in hand>
SetField(f) == Stmt("set_field", None, <<>>, None, f, <<>>, <<>>)
\* a local variable takes the value in hand
Keep == Stmt("keep", None, <<>>, None, None, <<>>, <<>>)
\* if not x: body  else: orelse
IfNot(f, body, orelse) == Stmt("if_not", None, <<>>, None, f, body, orelse)
\* if x[key] != attr: body
IfAttrNot(attr, body) == Stmt("if_attr_not", None, <<>>, attr, None, body, <<>>)
\* try: body  except (cexc.ApicResponseNotOk, KeyError):
\*     with excutils.save_and_reraise_exception(): mo.delete(*params)
Try(body, c, params) == Stmt("try", c, params, None, None, body, <<>>)
\* return None
ReturnNone == Stmt("return_none", None, <<>>, None, None, <<>>, <<>>)
\* the DB calls
GetEpgForNetwork(network_id) ==
    Stmt("get_epg_for_network", None, <<network_id>>, None, None, <<>>, <<>>)
WriteEpgForNetwork(network_id, epg_uid) ==
    Stmt("write_epg_for_network", None, <<network_id, epg_uid>>, None, None, <<>>, <<>>)
DeleteEpg == Stmt("delete_epg", None, <<>>, None, None, <<>>, <<>>)
GetContractForRouter(router_id) ==
    Stmt("get_contract_for_router", None, <<router_id>>, None, None, <<>>, <<>>)
WriteContractForRouter(tenant_id, router_id, contract_id, filter_id) ==
    Stmt("write_contract_for_router", None, <<tenant_id, router_id, contract_id, filter_id>>,
         None, None, <<>>, <<>>)
DeleteContractForRouter(router_id) ==
    Stmt("delete_contract_for_router", None, <<router_id>>, None, None, <<>>, <<>>)
\* uuid.uuid4()
Uuid4 == Stmt("uuid4", None, <<>>, None, None, <<>>, <<>>)

\* obj[DN_KEY] of the attributes get returned
DN_KEY(obj) == LET o == CHOOSE x \in obj : TRUE IN dn(o.cls, o.params)

ValueOf(m, f) == IF f = "val" THEN m.val ELSE IF f = "arg" THEN m.arg ELSE m.mgr[f]

RECURSIVE Exec(_, _)
RECURSIVE Step(_, _)
Step(m, s) ==
    IF Raising(m) THEN m
    ELSE CASE s.do = "create" -> create(m, s.c, s.params, s.attr)
           [] s.do = "get" -> get(m, s.c, s.params)
           [] s.do = "delete" -> delete(m, s.c, s.params)
           [] s.do = "update" -> update(m, s.c, s.params, s.attr)
           [] s.do = "create_if_not_exist" -> create_if_not_exist(m, s.c, s.params, s.attr)
           [] s.do = "create_under_dn" ->
                create(m, s.c, Append(s.params, DN_KEY(ValueOf(m, s.f))), None)
           [] s.do = "create_with_tDn" ->
                create(m, s.c, s.params, DN_KEY(ValueOf(m, s.f)))
           [] s.do = "subscript" ->
                IF ValueOf(m, s.f) = {} THEN Raise(m, "TypeError") ELSE m
           [] s.do = "set_field" -> [m EXCEPT !.mgr[s.f] = m.val]
           [] s.do = "keep" -> [m EXCEPT !.arg = m.val]
           [] s.do = "if_not" ->
                Exec(m, IF ValueOf(m, s.f) = {} THEN s.body ELSE s.orelse)
           [] s.do = "if_attr_not" ->
                Exec(m, IF (CHOOSE o \in m.val : TRUE).attr # s.attr THEN s.body ELSE <<>>)
           [] s.do = "try" -> ExceptDelete(Exec(m, s.body), s.c, s.params)
           [] s.do = "return_none" -> [m EXCEPT !.val = {}]
           [] s.do = "get_epg_for_network" ->
                [m EXCEPT !.val = get_epg_for_network(m, s.params[1])]
           [] s.do = "write_epg_for_network" ->
                write_epg_for_network(m, s.params[1], s.params[2])
           [] s.do = "delete_epg" -> delete_epg(m)
           [] s.do = "get_contract_for_router" ->
                [m EXCEPT !.val = get_contract_for_router(m, s.params[1])]
           [] s.do = "write_contract_for_router" ->
                write_contract_for_router(m, s.params[1], s.params[2], s.params[3],
                                          s.params[4])
           [] s.do = "delete_contract_for_router" ->
                delete_contract_for_router(m, s.params[1])
           [] s.do = "uuid4" -> [m EXCEPT !.uuid = @ + 1]

Exec(m, stmts) ==
    IF stmts = <<>> THEN m ELSE Exec(Step(m, Head(stmts)), Tail(stmts))

(***************************************************************************)
(* APICManager: the infrastructure.                                        *)
(***************************************************************************)
ensure_vlan_ns_created_on_apic(name, vmin, vmax) ==
    (IF clear_node_profiles
     THEN <<Delete("fvnsVlanInstP", <<name, "dynamic">>),
            Delete("fvnsVlanInstP", <<name, "static">>)>>
     ELSE <<>>)
    \o
    <<Get("fvnsVlanInstP", <<name, "static">>), SetField("vlan_ns"),
      IfNot("vlan_ns",
            <<Try(<<Create("fvnsVlanInstP", <<name, "static">>, None),
                    Get("fvnsEncapBlk__vlan",
                        <<name, "static", "vlan-" \o vmin, "vlan-" \o vmax>>),
                    IfNot("val",
                          <<Create("fvnsEncapBlk__vlan",
                                   <<name, "static", "vlan-" \o vmin, "vlan-" \o vmax>>,
                                   "encap")>>,
                          <<>>),
                    Get("fvnsVlanInstP", <<name, "static">>), SetField("vlan_ns")>>,
                  "fvnsVlanInstP", <<name, "static">>)>>,
            \* no return statement on this path
            <<ReturnNone>>)>>

\* vlan_ns, the argument, is the value kept
ensure_phys_domain_created_on_apic(phys_name) ==
    (IF clear_node_profiles THEN <<Delete("physDomP", <<phys_name>>)>> ELSE <<>>)
    \o
    <<Get("physDomP", <<phys_name>>), SetField("phys_domain"),
      IfNot("phys_domain",
            <<Try(<<Create("physDomP", <<phys_name>>, None),
                    IfNot("arg", <<>>,
                          <<CreateWithTDn("infraRsVlanNs", <<phys_name>>, "arg")>>),
                    Get("physDomP", <<phys_name>>), SetField("phys_domain")>>,
                  "physDomP", <<phys_name>>)>>,
            <<>>)>>

ensure_entity_profile_created_on_apic(name) ==
    (IF clear_node_profiles THEN <<Delete("infraAttEntityP", <<name>>)>> ELSE <<>>)
    \o
    <<Get("infraAttEntityP", <<name>>), SetField("entity_profile"),
      IfNot("entity_profile",
            <<Try(<<Subscript("phys_domain"),
                    Create("infraAttEntityP", <<name>>, None),
                    CreateUnderDn("infraRsDomP", <<name>>, "phys_domain"),
                    Get("infraAttEntityP", <<name>>), SetField("entity_profile")>>,
                  "infraAttEntityP", <<name>>)>>,
            <<>>)>>

ensure_function_profile_created_on_apic(name) ==
    (IF clear_node_profiles THEN <<Delete("infraAccPortGrp", <<name>>)>> ELSE <<>>)
    \o
    <<Get("infraAccPortGrp", <<name>>), SetField("function_profile"),
      IfNot("function_profile",
            <<Try(<<Create("infraAccPortGrp", <<name>>, None),
                    Subscript("entity_profile"),
                    CreateWithTDn("infraRsAttEntP", <<name>>, "entity_profile"),
                    Get("infraAccPortGrp", <<name>>), SetField("function_profile")>>,
                  "infraAccPortGrp", <<name>>)>>,
            <<>>)>>

\* The switch inventory of the DB and switch_dict are empty here, so the two
\* loops over the switches have no iteration.
ensure_infra_created_on_apic ==
    ensure_vlan_ns_created_on_apic(apic_vlan_ns_name, vlan_min, vlan_max)
    \o <<Keep>>
    \o ensure_phys_domain_created_on_apic(apic_domain_name)
    \o ensure_entity_profile_created_on_apic(apic_entity_profile)
    \o ensure_function_profile_created_on_apic(apic_function_profile)
    \o <<ReturnNone>>

(***************************************************************************)
(* APICManager: bridge domains, EPGs and router contracts.                 *)
(***************************************************************************)
ensure_context_enforced(tenant_id, ctx_id) ==
    <<Get("fvCtx", <<tenant_id, ctx_id>>),
      IfNot("val",
            <<Create("fvCtx", <<tenant_id, ctx_id>>, CONTEXT_ENFORCED)>>,
            <<IfAttrNot(CONTEXT_ENFORCED,
                        <<Update("fvCtx", <<tenant_id, ctx_id>>, CONTEXT_ENFORCED)>>)>>)>>

ensure_bd_created_on_apic(tenant_id, bd_id) ==
    <<Get("fvBD", <<tenant_id, bd_id>>),
      IfNot("val",
            <<Try(<<Create("fvBD", <<tenant_id, bd_id>>, None)>>
                  \o ensure_context_enforced(tenant_id, CONTEXT_DEFAULT)
                  \o <<Create("fvRsCtx", <<tenant_id, bd_id>>, CONTEXT_DEFAULT)>>,
                  "fvBD", <<tenant_id, bd_id>>)>>,
            <<>>),
      ReturnNone>>

\* the bridge-domain association posted before the EPG
ensure_epg_RsBdFirst(tenant_id, network_id) ==
    <<GetEpgForNetwork(network_id),
      IfNot("val",
            <<Try(<<Get("fvBD", <<tenant_id, network_id>>), Subscript("val"),
                    Create("fvRsBd", <<tenant_id, app_profile_name, network_id>>,
                           network_id),
                    Create("fvAEPg", <<tenant_id, app_profile_name, network_id>>, None),
                    Subscript("phys_domain"),
                    CreateUnderDn("fvRsDomAtt",
                                  <<tenant_id, app_profile_name, network_id>>,
                                  "phys_domain")>>,
                  "fvAEPg", <<tenant_id, app_profile_name, network_id>>),
              WriteEpgForNetwork(network_id, network_id)>>,
            <<>>)>>

\* epg_uid = network_id
ensure_epg_created_for_network(tenant_id, network_id) ==
    <<GetEpgForNetwork(network_id),
      IfNot("val",
            <<Try(<<Create("fvAEPg", <<tenant_id, app_profile_name, network_id>>, None),
                    \* bd = self.apic.fvBD.get(...); bd_name = bd['name']
                    Get("fvBD", <<tenant_id, network_id>>), Subscript("val"),
                    Create("fvRsBd", <<tenant_id, app_profile_name, network_id>>,
                           network_id),
                    \* phys_dn = self.phys_domain[DN_KEY]
                    Subscript("phys_domain"),
                    CreateUnderDn("fvRsDomAtt",
                                  <<tenant_id, app_profile_name, network_id>>,
                                  "phys_domain")>>,
                  "fvAEPg", <<tenant_id, app_profile_name, network_id>>),
              WriteEpgForNetwork(network_id, network_id)>>,
            \* return epg
            <<>>)>>

\* the row removed before the EPG is deleted on the controller
delete_epg_for_network_RowFirst(tenant_id, network_id) ==
    <<GetEpgForNetwork(network_id),
      IfNot("val",
            <<>>,
            <<DeleteEpg,
              Delete("fvAEPg", <<tenant_id, app_profile_name, network_id>>)>>),
      ReturnNone>>

\* epg.epg_id is the network_id; "return False" and the implicit return are
\* both the empty value
delete_epg_for_network(tenant_id, network_id) ==
    <<GetEpgForNetwork(network_id),
      IfNot("val",
            <<>>,
            <<Delete("fvAEPg", <<tenant_id, app_profile_name, network_id>>),
              DeleteEpg>>),
      ReturnNone>>

create_tenant_filter(tenant_id, fuuid) ==
    <<Try(<<CreateIfNotExist("vzFilter", <<tenant_id, fuuid>>, None),
            CreateIfNotExist("vzEntry", <<tenant_id, fuuid, CP_ENTRY>>, None)>>,
          "vzFilter", <<tenant_id, fuuid>>)>>

\* CP_PATH_DN % (owner, cuuid)
CP_PATH_DN(owner, cuuid) == "uni/tn-" \o owner \o "/brc-" \o cuuid

\* uuid.uuid4(): the i-th value drawn
uuid4(i) == "uuid-" \o ToString(i)

\* the router's row written before the first remote write
get_router_contract_WriteFirst(contract, cuuid, router_id, owner) ==
    (IF contract = {} THEN <<Uuid4>> ELSE <<>>)
    \o
    <<Try((IF contract = {}
           THEN <<WriteContractForRouter(owner, router_id, cuuid, CP_FILTER)>>
           ELSE <<>>)
          \o <<CreateIfNotExist("vzBrCP", <<owner, cuuid>>,
                                IF owner = TENANT_COMMON THEN SCOPE_GLOBAL ELSE SCOPE_TENANT),
               CreateIfNotExist("vzSubj", <<owner, cuuid, CP_SUBJ>>, None)>>
          \o create_tenant_filter(owner, CP_FILTER)
          \o <<CreateIfNotExist("vzRsSubjFiltAtt", <<owner, cuuid, CP_SUBJ, CP_FILTER>>,
                                None),
               CreateIfNotExist("vzCPIf", <<owner, CP_INTERFACE>>, None),
               Create("vzRsIf", <<owner, CP_INTERFACE>>, CP_PATH_DN(owner, cuuid))>>,
          "vzBrCP", <<owner, cuuid>>),
      GetContractForRouter(router_id)>>

\* contract is the row of the router at the call, cuuid the uuid4() value or
\* contract.contract_id
get_router_contract_with(contract, cuuid, router_id, owner) ==
    (IF contract = {} THEN <<Uuid4>> ELSE <<>>)
    \o
    <<Try(<<CreateIfNotExist("vzBrCP", <<owner, cuuid>>,
                             IF owner = TENANT_COMMON THEN SCOPE_GLOBAL ELSE SCOPE_TENANT),
            CreateIfNotExist("vzSubj", <<owner, cuuid, CP_SUBJ>>, None)>>
          \o create_tenant_filter(owner, CP_FILTER)
          \o <<CreateIfNotExist("vzRsSubjFiltAtt", <<owner, cuuid, CP_SUBJ, CP_FILTER>>,
                                None),
               CreateIfNotExist("vzCPIf", <<owner, CP_INTERFACE>>, None),
               Create("vzRsIf", <<owner, CP_INTERFACE>>, CP_PATH_DN(owner, cuuid))>>
          \o (IF contract = {}
              THEN <<WriteContractForRouter(owner, router_id, cuuid, CP_FILTER)>>
              ELSE <<>>),
          "vzBrCP", <<owner, cuuid>>),
      \* return contract
      GetContractForRouter(router_id)>>

get_router_contract(m, router_id, owner) ==
    get_router_contract_with(
        get_contract_for_router(m, router_id),
        IF get_contract_for_router(m, router_id) = {} THEN uuid4(m.uuid + 1)
        ELSE (CHOOSE r \in get_contract_for_router(m, router_id) : TRUE).contract_id,
        router_id, owner)

delete_router_contract(m, router_id) ==
    IF get_contract_for_router(m, router_id) = {} THEN <<ReturnNone>>
    ELSE <<Delete("vzBrCP",
                  <<(CHOOSE r \in get_contract_for_router(m, router_id) : TRUE).tenant_id,
                    (CHOOSE r \in get_contract_for_router(m, router_id) : TRUE).contract_id>>),
           DeleteContractForRouter(router_id), ReturnNone>>

(***************************************************************************)
(* The manager's steps.                                                    *)
(***************************************************************************)
NoOp == [op |-> None, args |-> <<>>,
         pre |-> [apic |-> {}, epg_db |-> {}, contract_db |-> {}],
         log |-> <<>>, ret |-> {}, exc |-> NoExc, first |-> NoExc, logged |-> {},
         undone |-> {}]

\* The networks side (infrastructure, bridge domains, EPGs) and the routers
\* side (contracts, filters) write disjoint objects below the tenant; a
\* behaviour exercises one of them.
Workloads == {"networks", "routers"}
SideOf ==
    [ensure_infra_created_on_apic |-> "networks",
     ensure_bd_created_on_apic |-> "networks",
     ensure_epg_created_for_network |-> "networks",
     delete_epg_for_network |-> "networks",
     create_tenant_filter |-> "routers",
     get_router_contract |-> "routers",
     delete_router_contract |-> "routers"]
SideOfClass == [fvAEPg |-> "networks", fvBD |-> "networks", vzBrCP |-> "routers"]

\* the threads that call into the one ApicSession of the manager
Callers == {"A", "B"}
\* APICManager.__init__, a blank controller and an empty DB
EngineInit ==
    /\ apic = {}
    /\ epg_db = {}
    /\ contract_db = {}
    /\ mgr = NoFields
    /\ clear_node_profiles \in BOOLEAN
    /\ uuid = 0
    /\ faults = 0
    /\ workload \in Workloads
    /\ last = NoOp
    /\ callers = [c \in Callers |-> [pc |-> "idle", sent |-> None, refreshed |-> FALSE,
                                      after |-> None, result |-> None]]

\* the operation ends in m: its effects, and what the caller observed
Call(name, args, plan, m) ==
    /\ workload = SideOf[name]
    /\ plan = NoPlan \/ faults < MaxFaults
    \* a plan whose failing request is never issued is NoPlan
    /\ plan = NoPlan \/ m.faulted
    /\ faults' = IF m.faulted THEN faults + 1 ELSE faults
    /\ apic' = m.apic
    /\ epg_db' = m.epg_db
    /\ contract_db' = m.contract_db
    /\ mgr' = IF m.exc.kind = Stopped THEN NoFields ELSE m.mgr
    /\ uuid' = m.uuid
    /\ last' = [op |-> name, args |-> args,
                pre |-> [apic |-> apic, epg_db |-> epg_db, contract_db |-> contract_db],
                log |-> m.log, ret |-> IF Raising(m) THEN {} ELSE m.val,
                exc |-> m.exc, first |-> m.first, logged |-> m.logged,
                undone |-> m.undone]
    /\ UNCHANGED <<clear_node_profiles, workload, callers, store, calc, registry, l3, topo, ndfc, race,
                   svars>>

EnsureInfraCreatedOnApic(plan) ==
    Call("ensure_infra_created_on_apic", <<>>, plan,
         Exec(Begin(plan), ensure_infra_created_on_apic))

EnsureBdCreatedOnApic(plan, tenant_id, bd_id) ==
    Call("ensure_bd_created_on_apic", <<tenant_id, bd_id>>, plan,
         Exec(Begin(plan), ensure_bd_created_on_apic(tenant_id, bd_id)))

EnsureEpgCreatedForNetwork(plan, tenant_id, network_id) ==
    Call("ensure_epg_created_for_network", <<tenant_id, network_id>>, plan,
         Exec(Begin(plan), ensure_epg_created_for_network(tenant_id, network_id)))

DeleteEpgForNetwork(plan, tenant_id, network_id) ==
    Call("delete_epg_for_network", <<tenant_id, network_id>>, plan,
         Exec(Begin(plan), delete_epg_for_network(tenant_id, network_id)))

CreateTenantFilter(plan, tenant_id, fuuid) ==
    Call("create_tenant_filter", <<tenant_id, fuuid>>, plan,
         Exec(Begin(plan), create_tenant_filter(tenant_id, fuuid) \o <<ReturnNone>>))

GetRouterContract(plan, router_id, owner) ==
    /\ get_contract_for_router(Begin(plan), router_id) # {} \/ uuid < MaxUuid
    /\ Call("get_router_contract", <<router_id, owner>>, plan,
            Exec(Begin(plan), get_router_contract(Begin(plan), router_id, owner)))

DeleteRouterContract(plan, router_id) ==
    Call("delete_router_contract", <<router_id>>, plan,
         Exec(Begin(plan), delete_router_contract(Begin(plan), router_id)))

\* the objects an administrator may delete on the controller directly
ExternalClasses == {"fvAEPg", "fvBD", "vzBrCP"}

ExternalDelete(o) ==
    /\ o \in apic
    /\ o.cls \in ExternalClasses
    /\ workload = SideOfClass[o.cls]
    /\ apic' = ControllerApply(apic, o.cls, o.params, "deleted", None)
    /\ last' = [NoOp EXCEPT !.op = "external"]
    /\ UNCHANGED <<epg_db, contract_db, mgr, clear_node_profiles, uuid, faults,
                   workload, callers, store, calc, registry, l3, topo, ndfc, race, svars>>

\* the variables of the other specifications keep this value
Init ==
    /\ SessionInit
    /\ EngineInit
    /\ store = None
    /\ calc = None
    /\ registry = None
    /\ l3 = None /\ topo = None /\ ndfc = None /\ race = None

Next ==
    \/ \E plan \in Plans : EnsureInfraCreatedOnApic(plan)
    \/ \E plan \in Plans, t \in Tenants, n \in Networks : EnsureBdCreatedOnApic(plan, t, n)
    \/ \E plan \in Plans, t \in Tenants, n \in Networks : EnsureEpgCreatedForNetwork(plan, t, n)
    \/ \E plan \in Plans, t \in Tenants, n \in Networks : DeleteEpgForNetwork(plan, t, n)
    \/ \E plan \in Plans, t \in Owners : CreateTenantFilter(plan, t, CP_FILTER)
    \/ \E plan \in Plans, r \in Routers, t \in Owners : GetRouterContract(plan, r, t)
    \/ \E plan \in Plans, r \in Routers : DeleteRouterContract(plan, r)
    \/ \E o \in apic : ExternalDelete(o)

Spec == Init /\ [][Next]_vars

\* The session alone: the manager has made no call, and its configuration,
\* which the session never reads, is the default one.
InitSession == Init /\ ~clear_node_profiles /\ workload = "networks"

SpecSession == InitSession /\ [][SessionNext]_vars

(***************************************************************************)
(* Two callers on one ApicSession, without a lock.  A caller runs from one *)
(* HTTP request to the next without interruption, and the other caller may *)
(* run while a request is in flight.  Every request is answered by the     *)
(* first address; the failover of _do_request is left to SpecSession.      *)
(***************************************************************************)
\* the cookie kept while login() asks for a new one
CookieAtLogin_Kept(old) == old

\* login(): self.cookie = {}
CookieAtLogin(old) == None

\* the session after __init__(hosts, port, usr, pwd, ssl) has logged in
InitShared ==
    /\ EngineInit
    /\ store = None
    /\ calc = None
    /\ registry = None
    /\ l3 = None /\ topo = None /\ ndfc = None /\ race = None
    /\ ~clear_node_profiles
    /\ workload = "networks"
    /\ api_base = [i \in 1..NumHosts |-> i]
    /\ cookie \in Tokens
    /\ authentication = "attrs"
    /\ username \in Users
    /\ password \in Passwords
    /\ session_timeout \in {tmo - SafetyMargin : tmo \in ServerTimeouts}
    /\ session_deadline = session_timeout
    /\ now = 0
    /\ pc = "idle"
    /\ tries = 0
    /\ refreshed = FALSE
    /\ after = None
    /\ op = [kind |-> "login", req |-> None]
    /\ loginArgs = <<username, password>>
    /\ attempts = <<>>
    /\ done = NoCall
    /\ trace = <<>>
    /\ result = "ok"

\* caller c moves to position label; tok is the session's cookie when the
\* request is made, sent as its cookies argument
CallerAt(c, label, tok, flag, ret, res) ==
    /\ callers' = [callers EXCEPT ![c] = [pc |-> label, sent |-> tok,
                                          refreshed |-> flag, after |-> ret,
                                          result |-> res]]
    /\ UNCHANGED <<api_base, now, pc, tries, refreshed, after, op, loginArgs,
                   attempts, done, trace, result, apic, epg_db, contract_db, mgr,
                   clear_node_profiles, uuid, faults, workload, last, store, calc,
                   registry, l3, topo, ndfc, race>>

\* login() up to its request
CallerBeginsLogin(c, ret) ==
    /\ cookie' = CookieAtLogin(cookie)
    /\ CallerAt(c, "login", None, callers[c].refreshed, ret, None)

\* a public data operation: _check_session, then the first request
CallerInvokes(c) ==
    /\ callers[c].pc = "idle"
    /\ IF authentication = None
       THEN CallerAt(c, "idle", None, FALSE, None, "ApicSessionNotLoggedIn")
       ELSE IF now > session_deadline
            THEN CallerAt(c, "refresh", cookie, FALSE, None, None)
            ELSE CallerAt(c, "send", cookie, FALSE, None, None)
    /\ UNCHANGED <<cookie, authentication, username, password, session_deadline,
                   session_timeout>>

CallerRefreshResponds(c, r, tok, tmo) ==
    /\ callers[c].pc = "refresh"
    /\ CASE r = "ok" ->
              /\ SaveCookie(tok, tmo)
              /\ authentication' = "attrs"
              /\ CallerAt(c, "send", tok, FALSE, None, None)
         [] r # "ok" /\ ReloginOnInvalidToken(r) ->
              /\ CallerBeginsLogin(c, "refresh")
              /\ UNCHANGED <<authentication, session_deadline, session_timeout>>
         [] OTHER ->
              /\ authentication' = None
              /\ CallerAt(c, "idle", None, FALSE, None, "ApicResponseNotOk")
              /\ UNCHANGED <<cookie, session_deadline, session_timeout>>
    /\ UNCHANGED <<username, password>>

CallerLoginResponds(c, accepted, tok, tmo) ==
    /\ callers[c].pc = "login"
    /\ accepted => (username # None /\ password # None)
    /\ IF accepted
       THEN /\ SaveCookie(tok, tmo)
            /\ authentication' = "attrs"
            /\ CallerAt(c, "send", tok, callers[c].after = "resend", None, None)
       ELSE /\ authentication' = None
            /\ CallerAt(c, "idle", None, FALSE, None, "ApicResponseNotOk")
            /\ UNCHANGED <<cookie, session_deadline, session_timeout>>
    /\ UNCHANGED <<username, password>>

CallerSendResponds(c, r) ==
    /\ callers[c].pc = "send"
    /\ session_deadline' = now + session_timeout
    /\ CASE r = "ok" ->
              /\ CallerAt(c, "idle", None, FALSE, None, "ok")
              /\ UNCHANGED cookie
         [] RetryOnInvalidToken(r, callers[c].refreshed) ->
              CallerBeginsLogin(c, "resend")
         [] OTHER ->
              /\ CallerAt(c, "idle", None, FALSE, None, "ApicResponseNotOk")
              /\ UNCHANGED cookie
    /\ UNCHANGED <<authentication, username, password, session_timeout>>

SharedNext ==
    \/ \E c \in Callers : CallerInvokes(c)
    \/ \E c \in Callers, r \in DataResponses, tok \in Tokens, tmo \in ServerTimeouts :
          CallerRefreshResponds(c, r, tok, tmo)
    \/ \E c \in Callers, a \in BOOLEAN, tok \in Tokens, tmo \in ServerTimeouts :
          CallerLoginResponds(c, a, tok, tmo)
    \/ \E c \in Callers, r \in DataResponses : CallerSendResponds(c, r)
    \/ Tick

SpecShared == InitShared /\ [][SharedNext]_vars

(***************************************************************************)
(* ApicDbModel under concurrent use: one clean() and one individual create *)
(* (write_epg_for_network or add_hostlink) on the one session of the       *)
(* model.  The decorator lockutils.synchronized('apic_manager_flush') is   *)
(* on clean and on _flush only.  Whether Query.delete() flushes the        *)
(* pending changes first (autoflush) is the session's configuration, which *)
(* the driver does not set: both are possible.                             *)
(***************************************************************************)
\* the tables in the order clean() empties them
CleanOrder == <<"NetworkEPG", "PortProfile", "TenantContract", "HostLink", "ApicName",
                "ApicKey">>
Row(table, key) == [table |-> table, key |-> key]
\* the rows the individual calls create
NewRows == {Row("NetworkEPG", "net-42"), Row("HostLink", "host-1")}
\* the rows the tables may hold before
OldRows == {Row("NetworkEPG", "net-0"), Row("HostLink", "host-0"), Row("ApicKey", "key-0")}

\* a lock that excludes nobody
LockFree_Always(st) == TRUE

\* lockutils.synchronized: the lock can be taken
LockFree(st) == st.lock = None

\* session.flush(): the pending rows are written
Flush(st) == [st EXCEPT !.rows = @ \cup st.pending, !.pending = {}]

\* clean is -1 before clean() is called, the number of tables emptied while
\* it holds the lock, and Len(CleanOrder) + 1 when it has returned; overlap
\* records that one call began while the other was under way
InitStore ==
    /\ SessionInit
    /\ EngineInit
    /\ ~clear_node_profiles
    /\ workload = "networks"
    /\ store \in [rows : SUBSET OldRows, pending : {{}}, autoflush : BOOLEAN,
                  lock : {None}, clean : {-1}, indiv : {"idle"}, row : {None},
                  overlap : {FALSE}]
    /\ calc = None
    /\ registry = None
    /\ l3 = None /\ topo = None /\ ndfc = None /\ race = None

\* clean(): take the lock, empty the tables one by one, flush, release
CleanStep ==
    /\ CASE store.clean = -1 ->
              /\ LockFree(store)
              /\ store' = [store EXCEPT !.lock = "clean", !.clean = 0,
                                        !.overlap = @ \/ store.indiv = "added"]
         [] store.clean \in 0..(Len(CleanOrder) - 1) ->
              store' = [(IF store.autoflush THEN Flush(store) ELSE store)
                           EXCEPT !.rows = {r \in @ : r.table # CleanOrder[store.clean + 1]},
                                  !.clean = @ + 1]
         [] store.clean = Len(CleanOrder) ->
              store' = [Flush(store) EXCEPT !.lock = None, !.clean = @ + 1]
         [] OTHER -> FALSE
    /\ UNCHANGED <<svars, apic, epg_db, contract_db, mgr, clear_node_profiles, uuid,
                   faults, workload, last, callers, calc, registry, l3, topo, ndfc, race>>

\* write_epg_for_network / add_hostlink: session.add(row) or session.merge(row),
\* then _flush(): take the lock, flush, release
IndividualStep(row) ==
    /\ CASE store.indiv = "idle" ->
              store' = [store EXCEPT !.pending = @ \cup {row}, !.indiv = "added",
                                     !.row = row,
                                     !.overlap = @ \/ store.clean \in 0..Len(CleanOrder)]
         [] store.indiv = "added" ->
              /\ row = store.row
              /\ LockFree(store)
              /\ store' = [store EXCEPT !.lock = "_flush", !.indiv = "flushing"]
         [] store.indiv = "flushing" ->
              /\ row = store.row
              /\ store' = [Flush(store) EXCEPT !.lock = None, !.indiv = "done"]
         [] OTHER -> FALSE
    /\ UNCHANGED <<svars, apic, epg_db, contract_db, mgr, clear_node_profiles, uuid,
                   faults, workload, last, callers, calc, registry, l3, topo, ndfc, race>>

StoreNext ==
    \/ CleanStep
    \/ \E row \in NewRows : IndividualStep(row)

SpecStore == InitStore /\ [][StoreNext]_vars

(***************************************************************************)
(* Single calls of functions of the driver, on a blank controller with     *)
(* every request answered: calc holds the function, its arguments and what *)
(* the call produced.                                                      *)
(***************************************************************************)
\* the values a call names its objects with, as many as the class takes
Values == <<"v1", "v2", "v3", "v4", "v5", "v6", "v7">>
ValuesFor(c) == SubSeq(Values, 1, param_count(c))

InitFunctions ==
    /\ SessionInit
    /\ EngineInit
    /\ ~clear_node_profiles
    /\ workload = "networks"
    /\ store = None
    /\ calc = [fn |-> None, args |-> <<>>, value |-> <<>>]
    /\ registry = None
    /\ l3 = None /\ topo = None /\ ndfc = None /\ race = None

\* the call fn(args), made on the initial state, produced value
Returns(fn, args, value) ==
    /\ calc.fn = None
    /\ calc' = [fn |-> fn, args |-> args, value |-> value]
    /\ UNCHANGED <<svars, apic, epg_db, contract_db, mgr, clear_node_profiles, uuid,
                   faults, workload, last, callers, store, registry, l3, topo, ndfc, race>>

\* ManagedObjectAccess.create(params): the posts it makes, in order
CallCreate(c) ==
    Returns("create", <<c, ValuesFor(c)>>,
            create(Begin(NoPlan), c, ValuesFor(c), None).log)

\* session.query(HostLink.swid, HostLink.module, HostLink.port)
\*     .filter_by(host=host).distinct(): a query, not yet a list of rows
get_switch_and_port_for_host(links, host) ==
    [query |-> "HostLink",
     rows |-> {<<l.swid, l.module, l.port>> : l \in {k \in links : k.host = host}}]

\* the truth value of an object that defines neither a length nor a truth
\* value of its own, as a query: true, whatever rows it would yield
Truth(obj) == TRUE

\* PORT_DN_PATH % (switch, module, port)
PORT_DN_PATH(t) ==
    "topology/pod-1/paths-" \o t[1] \o "/pathep-[eth" \o t[2] \o "/" \o ToString(t[3]) \o "]"

\* after ensure_epg_created_for_network: the exception raised, and the pdn of
\* every fvRsPathAtt created by ensure_path_binding_for_port
ensure_path_created_for_port(links, host_id) ==
    LET host_config == get_switch_and_port_for_host(links, host_id)
    IN  IF ~Truth(host_config)
        THEN [exc |-> "ApicHostNotConfigured", paths |-> {}]
        ELSE [exc |-> None, paths |-> {PORT_DN_PATH(t) : t \in host_config.rows}]

EnsurePathCreatedForPort(links, host_id) ==
    Returns("ensure_path_created_for_port", <<links, host_id>>,
            ensure_path_created_for_port(links, host_id))

\* '%s/%s' % (a, b) on formats kept as the pieces around their slots
Join(a, b) == SubSeq(a, 1, Len(a) - 1) \o <<a[Len(a)] \o "/" \o b[1]>> \o Tail(b)
\* fmt.count('%s')
count(fmt) == Len(fmt) - 1

\* ManagedObjectClass._dn_fmt: the format of the full name
RECURSIVE dn_fmt(_)
dn_fmt(c) ==
    IF container(c) # None
    THEN Join(dn_fmt(container(c)), rn_fmt(c))
    ELSE Join(<<"uni">>, rn_fmt(c))

\* ManagedObjectClass(mo_class): what __init__ derives
CallManagedObjectClass(c) ==
    Returns("ManagedObjectClass", <<c>>,
            [dn_fmt |-> dn_fmt(c), param_count |-> count(dn_fmt(c)),
             can_create |-> can_create(c)])

\* HostLink rows: the inventory of the hosts' connections
HostLink(host, swid, module, port) ==
    [host |-> host, swid |-> swid, module |-> module, port |-> port]
HostLinks == {HostLink("host-1", "101", "1", 1), HostLink("host-1", "101", "1", 2),
              HostLink("host-1", "102", "1", 1), HostLink("host-2", "101", "1", 3)}
HostIds == {"host-1", "host-2"}

\* lists of distinct port numbers, in any order
MaxPort == 5
PortLists ==
    {i \in UNION {[1..n -> 1..MaxPort] : n \in 0..MaxPort} :
        \A j, k \in DOMAIN i : j # k => i[j] # i[k]}

sorted_Unsorted(i) == i
sorted(i) == SortSeq(i, LAMBDA x, y : x < y)
enumerate(i) == [k \in DOMAIN i |-> <<k - 1, i[k]>>]

\* itertools.groupby: the maximal stretches of consecutive elements of equal key
RECURSIVE groupby(_, _)
groupby(keys, i) ==
    IF i = <<>> THEN <<>>
    ELSE LET rest == groupby(Tail(keys), Tail(i))
         IN  IF Len(i) > 1 /\ keys[1] = keys[2]
             THEN <<<<Head(i)>> \o Head(rest)>> \o Tail(rest)
             ELSE <<<<Head(i)>>>> \o rest

\* for a, b in groupby(enumerate(sorted(i)), lambda (x, y): y - x):
\*     b = list(b); yield b[0][1], b[-1][1]
group_by_ranges(i) ==
    LET e == enumerate(sorted(i))
        g == groupby([k \in DOMAIN e |-> e[k][2] - e[k][1]], e)
    IN  [k \in DOMAIN g |-> <<g[k][1][2], g[k][Len(g[k])][2]>>]

CallGroupByRanges(i) == Returns("group_by_ranges", <<i>>, group_by_ranges(i))

\* the rows a query yields, in the order the database happens to give
Rows(set) == CHOOSE i \in [1..Cardinality(set) -> set] : {i[k] : k \in DOMAIN i} = set
get_modules_for_switch(links, swid) == Rows({l.module : l \in {k \in links : k.swid = swid}})
get_ports_for_switch_module(links, swid, module) ==
    Rows({l.port : l \in {k \in links : k.swid = swid /\ k.module = module}})
zip(a, b) == [k \in 1..(IF Len(a) < Len(b) THEN Len(a) ELSE Len(b)) |-> <<a[k], b[k]>>]

\* the port blocks ensure_infra_created_for_switch creates for a module, on a
\* PortProfile table with no row: ports.sort(); ranges = zip(ports, ports)
PortBlocks(links, switch, module) ==
    LET ports == sorted(get_ports_for_switch_module(links, switch, module))
        ranges == zip(ports, ports)
    IN  [k \in DOMAIN ranges |->
            [fromCard |-> module, toCard |-> module,
             fromPort |-> ranges[k][1], toPort |-> ranges[k][Len(ranges[k])]]]

\* infraPortBlk.create and add_profile_for_module_and_ports, module by module
ensure_infra_created_for_switch(links, switch) ==
    LET modules == get_modules_for_switch(links, switch)
    IN  [k \in DOMAIN modules |-> PortBlocks(links, switch, modules[k])]

EnsureInfraCreatedForSwitch(links, switch) ==
    Returns("ensure_infra_created_for_switch", <<links, switch>>,
            ensure_infra_created_for_switch(links, switch))

SwitchIds == {"101", "102"}

\* the manager after ensure_infra_created_on_apic and ensure_bd_created_on_apic
\* for the network, and after ensure_epg_created_for_network when recorded
Prepared(tenant_id, network_id, recorded) ==
    LET m == Exec(Begin(NoPlan),
                  ensure_infra_created_on_apic \o ensure_bd_created_on_apic(tenant_id, network_id)
                  \o (IF recorded THEN ensure_epg_created_for_network(tenant_id, network_id)
                      ELSE <<>>))
    IN  [m EXCEPT !.log = <<>>]

\* ensure_path_created_for_port on the manager m: the EPG is ensured, then
\* the host is looked up; the value holds the manager after the call, the
\* exception raised and the paths created
path_created_for_port(m, tenant_id, network_id, links, host_id) ==
    LET epg == Exec(m, ensure_epg_created_for_network(tenant_id, network_id))
        host == ensure_path_created_for_port(links, host_id)
    IN  IF Raising(epg) THEN [m |-> epg, exc |-> epg.exc.kind, paths |-> {}]
        ELSE [m |-> epg, exc |-> host.exc, paths |-> host.paths]

PathCreatedForPort(links, host_id, recorded) ==
    \E m \in {Prepared("tenantA", "net-42", recorded)} :
        \E r \in {path_created_for_port(m, "tenantA", "net-42", links, host_id)} :
            Returns("path_created_for_port", <<links, host_id, recorded>>,
                    [exc |-> r.exc, paths |-> r.paths, log |-> r.m.log,
                     pre |-> [apic |-> m.apic, epg_db |-> m.epg_db],
                     post |-> [apic |-> r.m.apic, epg_db |-> r.m.epg_db]])

\* RestClient.__init__(self, hosts, port=80, usr=None, pwd=None, ssl=False)
\* called with positional arguments
RestClient(args) ==
    [hosts |-> args[1],
     port |-> IF Len(args) >= 2 THEN <<args[2]>> ELSE <<80>>,
     usr |-> IF Len(args) >= 3 THEN args[3] ELSE None,
     pwd |-> IF Len(args) >= 4 THEN args[4] ELSE None,
     ssl |-> IF Len(args) >= 5 THEN args[5] ELSE FALSE]

\* ApicSession.__init__: the addresses, and the login when usr and pwd are
\* given, which the controller answers with answer
ApicSession(b, answer) ==
    LET logs_in == b.usr # None /\ b.pwd # None
    IN  [api_base |-> [i \in DOMAIN b.hosts |->
                          <<IF b.ssl THEN "https" ELSE "http", b.hosts[i], b.port>>],
         logins |-> IF logs_in THEN <<<<b.usr, b.pwd>>>> ELSE <<>>,
         authentication |-> IF logs_in /\ answer = "ok" THEN "attrs" ELSE None,
         exc |-> IF logs_in /\ answer # "ok" THEN answer ELSE None]

\* APICManager.__init__: self.apic = apic_client.RestClient(apic_config
\* .apic_hosts, apic_config.apic_username, apic_config.apic_password)
APICManager(apic_config, answer) ==
    ApicSession(RestClient(<<apic_config.apic_hosts, apic_config.apic_username,
                             apic_config.apic_password>>), answer)

\* _check_session at the first call of the manager
check_session(session) ==
    IF session.authentication = None THEN "ApicSessionNotLoggedIn" ELSE None

ApicConfigs ==
    [apic_hosts : {<<"apic1">>, <<"apic1", "apic2">>},
     apic_username : {"admin", None}, apic_password : {"pw", None}]
LoginAnswers == {"ok", "ApicResponseNotOk", "ConnectionError"}

ConstructManager(apic_config, answer) ==
    LET session == APICManager(apic_config, answer)
    IN  Returns("APICManager", <<apic_config, answer>>,
                [session |-> session, first_call |-> check_session(session)])

FunctionsNext ==
    \/ \E c \in DOMAIN supported_mos : CallCreate(c)
    \/ \E c \in DOMAIN supported_mos : CallManagedObjectClass(c)
    \/ \E i \in PortLists : CallGroupByRanges(i)
    \/ \E links \in SUBSET HostLinks, sw \in SwitchIds : EnsureInfraCreatedForSwitch(links, sw)
    \/ \E links \in SUBSET HostLinks, h \in HostIds : EnsurePathCreatedForPort(links, h)
    \/ \E links \in SUBSET HostLinks, h \in HostIds, recorded \in BOOLEAN :
          PathCreatedForPort(links, h, recorded)
    \/ \E apic_config \in ApicConfigs, answer \in LoginAnswers :
          ConstructManager(apic_config, answer)

SpecFunctions == InitFunctions /\ [][FunctionsNext]_vars

(***************************************************************************)
(* ManagedObjectClass(mo_class), step by step, for two callers resolving   *)
(* the same class name.  _inst_cache maps a class name to the instance     *)
(* published for it (0: none); an instance is its index in insts.  The     *)
(* constructor call runs __new__ and then, on the instance __new__         *)
(* returned, __init__; __new__ itself runs __init__ on an instance it      *)
(* allocates, before it stores the instance in _inst_cache.                *)
(***************************************************************************)
Frame(klass, inst, at) == [klass |-> klass, inst |-> inst, pc |-> at]

InitRegistry ==
    /\ SessionInit /\ EngineInit
    /\ ~clear_node_profiles /\ workload = "networks"
    /\ store = None /\ calc = None /\ l3 = None /\ topo = None /\ ndfc = None /\ race = None
    /\ registry = [_inst_cache |-> [c \in DOMAIN supported_mos |-> 0],
                   insts |-> <<>>,
                   runs |-> [c \in DOMAIN supported_mos |-> 0],
                   stack |-> [x \in Callers |-> <<>>],
                   got |-> [x \in Callers |-> 0],
                   mo_class |-> None]

RegistryStep(r) ==
    /\ registry' = r
    /\ UNCHANGED <<svars, apic, epg_db, contract_db, mgr, clear_node_profiles, uuid,
                   faults, workload, last, callers, store, calc, l3, topo, ndfc, race>>

Top(x) == registry.stack[x][Len(registry.stack[x])]
WithTop(x, f) ==
    LET st == registry.stack[x]
    IN  [registry.stack EXCEPT ![x] = [st EXCEPT ![Len(st)] = f]]

\* the classes the callers resolve: a root, and classes one and two
\* containers deep
FirstResolved == {"fvTenant", "fvBD", "fvSubnet"}

\* a caller evaluates ManagedObjectClass(c)
Resolve(x, c) ==
    /\ registry.stack[x] = <<>> /\ registry.got[x] = 0
    /\ registry.mo_class \in {None, c}
    /\ RegistryStep([registry EXCEPT !.stack[x] = <<Frame(c, 0, "new")>>, !.mo_class = c])

\* __new__: return _inst_cache[mo_class], or allocate on KeyError
New(x) ==
    /\ registry.stack[x] # <<>> /\ Top(x).pc = "new"
    /\ LET k == Top(x).klass
       IN  IF registry._inst_cache[k] # 0
           THEN RegistryStep([registry EXCEPT
                    !.stack = WithTop(x, Frame(k, registry._inst_cache[k], "init"))])
           ELSE RegistryStep([registry EXCEPT
                    !.insts = Append(@, [klass |-> k, dn_fmt |-> <<>>]),
                    !.stack = WithTop(x, Frame(k, Len(registry.insts) + 1, "init_new"))])

\* __init__ up to the constructor call for the container inside _dn_fmt
InitInstance(x) ==
    /\ registry.stack[x] # <<>> /\ Top(x).pc \in {"init_new", "init"}
    /\ LET f == Top(x)
           counted == [registry EXCEPT !.runs[f.klass] = @ + 1]
       IN  IF container(f.klass) # None
           THEN RegistryStep([counted EXCEPT
                    !.stack[x] = Append(
                        WithTop(x, Frame(f.klass, f.inst,
                            IF f.pc = "init_new" THEN "dn_fmt_new" ELSE "dn_fmt"))[x],
                        Frame(container(f.klass), 0, "new"))])
           ELSE RegistryStep([counted EXCEPT
                    !.insts[f.inst].dn_fmt = Join(<<"uni">>, rn_fmt(f.klass)),
                    !.stack = WithTop(x, Frame(f.klass, f.inst,
                            IF f.pc = "init_new" THEN "publish" ELSE "ret"))])

\* _inst_cache[mo_class] = new_inst; return new_inst
Publish(x) ==
    /\ registry.stack[x] # <<>> /\ Top(x).pc = "publish"
    /\ RegistryStep([registry EXCEPT
           !._inst_cache[Top(x).klass] = Top(x).inst,
           !.stack = WithTop(x, Frame(Top(x).klass, Top(x).inst, "init"))])

\* the constructor call returns: to the caller, or into the _dn_fmt of the
\* class whose container was resolved, which finishes its __init__
Return(x) ==
    /\ registry.stack[x] # <<>> /\ Top(x).pc = "ret"
    /\ LET st == registry.stack[x]
           n == Len(st)
       IN  IF n = 1
           THEN RegistryStep([registry EXCEPT !.got[x] = Top(x).inst, !.stack[x] = <<>>])
           ELSE RegistryStep([registry EXCEPT
                    !.insts[st[n - 1].inst].dn_fmt =
                        Join(registry.insts[st[n].inst].dn_fmt, rn_fmt(st[n - 1].klass)),
                    !.stack[x] = Append(SubSeq(st, 1, n - 2),
                        Frame(st[n - 1].klass, st[n - 1].inst,
                            IF st[n - 1].pc = "dn_fmt_new" THEN "publish" ELSE "ret"))])

RegistryNext ==
    \E x \in Callers :
        \/ \E c \in FirstResolved : Resolve(x, c)
        \/ New(x)
        \/ InitInstance(x)
        \/ Publish(x)
        \/ Return(x)

SpecRegistry == InitRegistry /\ [][RegistryNext]_vars

(***************************************************************************)
(* ApicL3ServicePlugin: add_router_interface and remove_router_interface.  *)
(* The plugin maps the identifiers, programs the controller through the    *)
(* manager, calls the parent plugin and, when the parent raises, calls the *)
(* opposite manager operation inside save_and_reraise_exception.  l3 holds *)
(* the contract relations of the EPGs on the controller, the networks      *)
(* whose row is flagged provider, and the calls of the last operation.     *)
(***************************************************************************)
MaxOps == 2
Exceptions == {"KeyError", "DBError"}
InterfaceIds == {<<"tenant-1", "router-1", n, "subnet-1">> : n \in {"net-1", "net-2"}}
Failures == [manager : BOOLEAN, parent : Exceptions \cup {None}, undo : BOOLEAN]

\* name_mapper.tenant / router / network / subnet
mapped(id) == "apic-" \o id
map_names(ids) == [k \in DOMAIN ids |-> mapped(ids[k])]

\* except Exception
Caught_Nothing(exc) == FALSE
Caught(exc) == exc \in Exceptions

Relation(kind, a) == [kind |-> kind, tenant |-> a[1], epg |-> a[3], contract |-> a[2]]

\* APICManager.add_router_interface: the EPG provides and consumes the
\* router's contract; set_contract_for_epg flags the row when it creates
\* the provider relation
manager_add_router_interface_NoProvider(st, a) ==
    [st EXCEPT !.relations = @ \cup {Relation("fvRsCons", a)}]
manager_add_router_interface(st, a) ==
    [st EXCEPT !.relations = @ \cup {Relation("fvRsProv", a), Relation("fvRsCons", a)},
               !.provider = IF Relation("fvRsProv", a) \notin st.relations
                            THEN @ \cup {a[3]} ELSE @]

\* APICManager.remove_router_interface: delete_contract_for_epg with the
\* provider flag of the row
manager_remove_router_interface(st, a) ==
    IF a[3] \in st.provider
    THEN [st EXCEPT !.relations = @ \ {Relation("fvRsProv", a)}, !.provider = @ \ {a[3]}]
    ELSE [st EXCEPT !.relations = @ \ {Relation("fvRsCons", a)}]

\* a call of the manager: it raises on its first request, or it completes
ManagerCall(st, fn, a, fails) ==
    LET called == [st EXCEPT !.calls = Append(@, [on |-> "manager", fn |-> fn, args |-> a])]
    IN  IF fails THEN [called EXCEPT !.exc = "ApicResponseNotOk"]
        ELSE IF fn = "add_router_interface" THEN manager_add_router_interface(called, a)
        ELSE manager_remove_router_interface(called, a)

\* super(ApicL3ServicePlugin, self).add_router_interface / remove_router_interface
ParentCall(st, fn, ids, exc) ==
    [st EXCEPT !.calls = Append(@, [on |-> "super", fn |-> fn, args |-> ids]), !.exc = exc]

Opposite(fn) ==
    IF fn = "add_router_interface" THEN "remove_router_interface" ELSE "add_router_interface"

\* the body shared by the two operations of the plugin
router_interface(st, fn, ids, fail) ==
    LET a == map_names(ids)
        programmed == ManagerCall(st, fn, a, fail.manager)
    IN  IF programmed.exc # None THEN programmed
        ELSE LET parent == ParentCall(programmed, fn, ids, fail.parent)
             IN  IF parent.exc = None \/ ~Caught(parent.exc) THEN parent
                 ELSE LET undone == ManagerCall([parent EXCEPT !.exc = None],
                                                Opposite(fn), a, fail.undo)
                      IN  [undone EXCEPT
                              !.exc = save_and_reraise_exception(parent.exc, undone.exc)]

InitL3 ==
    /\ SessionInit /\ EngineInit
    /\ ~clear_node_profiles /\ workload = "networks"
    /\ store = None /\ calc = None /\ registry = None /\ topo = None /\ ndfc = None /\ race = None
    /\ l3 = [relations |-> {}, provider |-> {}, calls |-> <<>>, exc |-> None,
             op |-> None, ids |-> <<>>, fail |-> [manager |-> FALSE, parent |-> None, undo |-> FALSE],
             pre |-> [relations |-> {}, provider |-> {}], n |-> 0]

PluginCall(fn, ids, fail) ==
    /\ l3.n < MaxOps
    /\ l3' = [router_interface([l3 EXCEPT !.calls = <<>>, !.exc = None], fn, ids, fail)
                 EXCEPT !.op = fn, !.ids = ids, !.fail = fail,
                        !.pre = [relations |-> l3.relations, provider |-> l3.provider],
                        !.n = l3.n + 1]
    /\ UNCHANGED <<svars, apic, epg_db, contract_db, mgr, clear_node_profiles, uuid,
                   faults, workload, last, callers, store, calc, registry, topo, ndfc, race>>

AddRouterInterface(ids, fail) == PluginCall("add_router_interface", ids, fail)
RemoveRouterInterface(ids, fail) == PluginCall("remove_router_interface", ids, fail)

L3Next ==
    \E ids \in InterfaceIds, fail \in Failures :
        \/ AddRouterInterface(ids, fail)
        \/ RemoveRouterInterface(ids, fail)

SpecL3 == InitL3 /\ [][L3Next]_vars

(***************************************************************************)
(* The host links: ApicTopologyService.update_link, APICManager            *)
(* .add_hostlink / remove_hostlink and the infrastructure of a switch.     *)
(* topo holds the peers of the service, the HostLink and PortProfile rows, *)
(* the objects of the controller as tuples <<class, names...>>, every      *)
(* port profile ever created, the uuid counter and the calls the service   *)
(* made to the manager.  A call is evaluated on a record t that adds the   *)
(* exception in flight and the number of requests left before the          *)
(* controller rejects one (-1: it rejects none).                           *)
(***************************************************************************)
MaxMsgs == 3
IntZero == "0 (int)"
Interfaces == {"eth0", "eth1"}
ReportedLinks ==
    {<<"host-1", i, "mac", sw, "1", p>> : i \in Interfaces, sw \in {"101", "102"}, p \in {1, 2}}
\* delete messages carry mac None and the int 0 for switch, module and port
LinkDeletes == {<<"host-1", i, None, IntZero, IntZero, 0>> : i \in Interfaces}
\* no rejection, or one while the node profile, the port profile, the port
\* selector, the port block or the path of a first link is created
LeftChoices == {-1, 2, 7, 10, 11, 13}

\* a request to the controller
Remote(t) ==
    IF t.exc # None THEN t
    ELSE IF t.left = 0 THEN [t EXCEPT !.exc = "ApicResponseNotOk", !.left = -1]
    ELSE [t EXCEPT !.left = IF @ > 0 THEN @ - 1 ELSE @]
Put(t, o) ==
    LET r == Remote(t) IN IF r.exc # None THEN r ELSE [r EXCEPT !.objs = @ \cup {o}]
Under(classes, prefix, objs) ==
    {o \in objs : /\ o[1] \in classes
                  /\ Len(o) > Len(prefix)
                  /\ SubSeq(o, 2, Len(prefix) + 1) = prefix}
Drop(t, classes, prefix) ==
    LET r == Remote(t)
    IN  IF r.exc # None THEN r ELSE [r EXCEPT !.objs = @ \ Under(classes, prefix, r.objs)]
\* except (cexc.ApicResponseNotOk, KeyError):
\*     with excutils.save_and_reraise_exception(): delete
ExceptDrop(t, classes, prefix) ==
    IF t.exc = None THEN t
    ELSE LET h == Drop([t EXCEPT !.exc = None], classes, prefix)
         IN  [h EXCEPT !.exc = save_and_reraise_exception(t.exc, h.exc)]
NewUuid(t) == [t EXCEPT !.uuid = @ + 1]
UuidOf(t) == "uuid-" \o ToString(t.uuid)

NodeClasses == {"infraNodeP", "infraLeafS", "infraNodeBlk", "infraRsAccPortP"}
PortClasses == {"infraAccPortP", "infraHPortS", "infraRsAccBaseGrp", "infraPortBlk"}

ensure_node_profile_created_for_switch(t, switch_id) ==
    LET got == Remote(t)
    IN  IF got.exc # None \/ <<"infraNodeP", switch_id>> \in got.objs THEN got
        ELSE LET node == Put(got, <<"infraNodeP", switch_id>>)
                 leaf == Put(NewUuid(node), <<"infraLeafS", switch_id, UuidOf(NewUuid(node))>>)
                 blk == Put(NewUuid(leaf), <<"infraNodeBlk", switch_id, UuidOf(leaf),
                                             UuidOf(NewUuid(leaf))>>)
             IN  ExceptDrop(Remote(blk), NodeClasses, <<switch_id>>)

\* ensure_port_profile_on_apic inside ensure_port_profile_created_for_switch;
\* the value is the record t with the profile id in field ppname
ensure_port_profile_created_for_switch(t, switch) ==
    LET sprofile == {r \in t.rows : r.node_id = switch}
    IN  IF sprofile # {}
        THEN [t EXCEPT !.ppname = (CHOOSE r \in sprofile : TRUE).profile_id]
        ELSE LET u == NewUuid(t)
                 ppname == UuidOf(u)
                 got == Remote(u)
                 made == Put(got, <<"infraAccPortP", ppname>>)
                 logged == IF made.exc = None
                           THEN [made EXCEPT !.made = @ \cup {<<switch, ppname>>}]
                           ELSE made
                 on_apic == ExceptDrop(Remote(logged), PortClasses, <<ppname>>)
                 linked == Put(on_apic, <<"infraRsAccPortP", switch, ppname>>)
             IN  [ExceptDrop(linked, PortClasses, <<ppname>>) EXCEPT !.ppname = ppname]

RECURSIVE PortLoop(_, _, _, _, _)
PortLoop(t, switch, hname, module, ranges) ==
    IF ranges = <<>> \/ t.exc # None THEN t
    ELSE LET prange == Head(ranges)
             row == [node_id |-> switch, profile_id |-> t.ppname, hpselc_id |-> hname,
                     module |-> module, from_port |-> prange[1], to_port |-> prange[2]]
             found == \E r \in t.rows :
                         /\ r.node_id = switch /\ r.profile_id = t.ppname
                         /\ r.module = module
                         /\ r.from_port = prange[1] /\ r.to_port = prange[2]
             blk == Put(NewUuid(t), <<"infraPortBlk", t.ppname, hname, UuidOf(NewUuid(t)),
                                      prange[1], prange[2]>>)
         IN  IF found THEN PortLoop(t, switch, hname, module, Tail(ranges))
             ELSE IF blk.exc # None THEN blk
             ELSE PortLoop([blk EXCEPT !.rows = @ \cup {row}], switch, hname, module,
                           Tail(ranges))

RECURSIVE ModuleLoop(_, _, _)
ModuleLoop(t, switch, modules) ==
    IF modules = <<>> \/ t.exc # None THEN t
    ELSE LET module == Head(modules)
             profile == {r \in t.rows : r.node_id = switch /\ r.profile_id = t.ppname
                                        /\ r.module = module}
             u == NewUuid(t)
             sel == Put(u, <<"infraHPortS", t.ppname, UuidOf(u)>>)
             grp == ExceptDrop(Put(sel, <<"infraRsAccBaseGrp", t.ppname, UuidOf(u)>>),
                               {"infraHPortS", "infraRsAccBaseGrp", "infraPortBlk"},
                               <<t.ppname, UuidOf(u)>>)
             with == IF profile # {} THEN t ELSE grp
             hname == IF profile # {} THEN (CHOOSE r \in profile : TRUE).hpselc_id
                      ELSE UuidOf(u)
             ports == sorted(Rows({l[6] : l \in {k \in t.links : k[4] = switch /\ k[5] = module}}))
         IN  ModuleLoop(PortLoop(with, switch, hname, module, zip(ports, ports)),
                        switch, Tail(modules))

\* APICManager.ensure_infra_created_for_switch, function_profile already read
infra_created_for_switch(t, switch) ==
    LET node == ensure_node_profile_created_for_switch(t, switch)
        port == IF node.exc # None THEN node
                ELSE ensure_port_profile_created_for_switch(node, switch)
    IN  ModuleLoop(port, switch, Rows({l[5] : l \in {k \in t.links : k[4] = switch}}))

\* ensure_vlans_created_for_host for a host bound to one segment whose EPG
\* exists: ensure_path_binding_for_port for every row of the host
RECURSIVE PathLoop(_, _)
PathLoop(t, config) ==
    IF config = <<>> \/ t.exc # None THEN t
    ELSE LET got == Remote(t)
             path == <<"fvRsPathAtt", PORT_DN_PATH(Head(config))>>
         IN  PathLoop(IF got.exc # None \/ path \in got.objs THEN got ELSE Put(got, path),
                      Tail(config))
ensure_vlans_created_for_host(t, host) ==
    PathLoop(t, Rows({<<l[4], l[5], l[6]>> : l \in {k \in t.links : k[1] = host}}))

\* the rows of a host on a switch port
get_hostlinks_for_host_switchport(links, host, swid, module, port) ==
    {l \in links : l[1] = host /\ l[4] = swid /\ l[5] = module /\ l[6] = port}
\* session.merge(row): HostLink has the primary key (host, ifname)
merge(links, row) == {l \in links : ~(l[1] = row[1] /\ l[2] = row[2])} \cup {row}

add_hostlink_Always(t, link, prev_links) == TRUE
add_hostlink_ensures(t, link, prev_links) == prev_links = {}

add_hostlink(t, link) ==
    LET prev_links == get_hostlinks_for_host_switchport(t.links, link[1], link[4],
                                                        link[5], link[6])
        added == [t EXCEPT !.links = merge(@, link),
                           !.log = Append(@, <<"add_hostlink", link>>)]
    IN  IF add_hostlink_ensures(t, link, prev_links)
        THEN LET infra == infra_created_for_switch(added, link[4])
             IN  IF infra.exc # None THEN infra
                 ELSE ensure_vlans_created_for_host(infra, link[1])
        ELSE added

remove_hostlink(t, link) ==
    [t EXCEPT !.links = {l \in @ : ~(l[1] = link[1] /\ l[2] = link[2])},
              !.log = Append(@, <<"remove_hostlink", link>>)]

\* ", ".join([host, interface, mac, switch, module, port]) raises TypeError
\* on an item that is no string: the mac None, the int 0 of a delete message
\* (the ports of reported links are strings, kept here as numbers)
join_raises(msg) == msg[3] = None \/ msg[4] = IntZero \/ msg[5] = IntZero

update_link_InPlace(t, clink, nlink) ==
    LET added == add_hostlink(t, nlink)
    IN  IF added.exc # None THEN added
        ELSE [added EXCEPT !.peers[<<nlink[1], nlink[2]>>] = nlink]
update_link_replace(t, clink, nlink) ==
    LET removed == remove_hostlink(t, clink)
        popped == [removed EXCEPT !.peers[<<nlink[1], nlink[2]>>] = None]
        added == add_hostlink(popped, nlink)
    IN  IF added.exc # None THEN added
        ELSE [added EXCEPT !.peers[<<nlink[1], nlink[2]>>] = nlink]

update_link(t, nlink) ==
    LET key == <<nlink[1], nlink[2]>>
        clink == t.peers[key]
    IN  IF join_raises(nlink) THEN [t EXCEPT !.exc = "TypeError"]
        ELSE IF nlink[4] = IntZero
        THEN IF clink # None
             THEN [remove_hostlink(t, clink) EXCEPT !.peers[key] = None]
             ELSE t
        ELSE IF clink = None
        THEN LET added == add_hostlink(t, nlink)
             IN  IF added.exc # None THEN added ELSE [added EXCEPT !.peers[key] = nlink]
        ELSE IF clink # nlink THEN update_link_replace(t, clink, nlink)
        ELSE t

PeerKeys == {<<"host-1", i>> : i \in Interfaces}

InitTopology ==
    /\ SessionInit /\ EngineInit
    /\ ~clear_node_profiles /\ workload = "networks"
    /\ store = None /\ calc = None /\ registry = None /\ l3 = None
    /\ ndfc = None /\ race = None
    /\ topo = [peers |-> [k \in PeerKeys |-> None], links |-> {}, rows |-> {}, objs |-> {},
               made |-> {}, uuid |-> 0, ppname |-> None, log |-> <<>>, exc |-> None,
               left |-> -1, op |-> None, arg |-> <<>>, failed |-> {}, again |-> FALSE,
               ppnames |-> {}, n |-> 0, mark |-> 0, msgs |-> <<>>, clink |-> None]

\* a call arrives: the fields of the last call are reset, the call is counted;
\* log holds the manager calls of the service since the start, mark its
\* length when the call arrived, msgs the messages received
Entered(fn, arg, left) ==
    [topo EXCEPT !.exc = None, !.left = left, !.op = fn, !.arg = arg,
                 !.again = (\E f \in topo.failed : f[1] = fn /\ f[2] = arg),
                 !.n = @ + 1, !.mark = Len(topo.log),
                 !.msgs = IF fn = "update_link" THEN Append(@, arg) ELSE @,
                 !.clink = IF fn = "update_link" THEN topo.peers[<<arg[1], arg[2]>>] ELSE None]
Left(t) ==
    [t EXCEPT !.left = -1,
              !.failed = IF t.exc # None THEN @ \cup {<<t.op, t.arg, t.exc>>} ELSE @]
TopologyStep(t) ==
    /\ topo.n < MaxMsgs
    /\ topo' = Left(t)
    /\ UNCHANGED <<svars, apic, epg_db, contract_db, mgr, clear_node_profiles, uuid,
                   faults, workload, last, callers, store, calc, registry, l3, ndfc, race>>

UpdateLink(msg, left) == TopologyStep(update_link(Entered("update_link", msg, left), msg))

EnsureInfraForSwitch(switch, left) ==
    TopologyStep(
        LET t == infra_created_for_switch(
                     Entered("ensure_infra_created_for_switch", switch, left), switch)
        IN  [t EXCEPT !.ppnames = IF t.ppname # None /\ t.op = "ensure_infra_created_for_switch"
                                  THEN @ \cup {<<switch, t.ppname>>} ELSE @])

TopologyNext ==
    \/ \E msg \in ReportedLinks \cup LinkDeletes, left \in LeftChoices : UpdateLink(msg, left)
    \/ \E sw \in {"101", "102"}, left \in LeftChoices : EnsureInfraForSwitch(sw, left)

SpecTopology == InitTopology /\ [][TopologyNext]_vars

(***************************************************************************)
(* get_router_contract called by two threads for one router, one statement *)
(* per step.  race holds the RouterContract rows, the contracts (vzBrCP)   *)
(* on the controller by their name, the contract the interface vzCPIf      *)
(* points to, the uuid counter and, for each caller, its position and its  *)
(* local variables.  No lock is taken by the method or by its callers.     *)
(***************************************************************************)
RaceInit ==
    /\ SessionInit /\ EngineInit
    /\ ~clear_node_profiles /\ workload = "routers"
    /\ store = None /\ calc = None /\ registry = None /\ l3 = None
    /\ topo = None /\ ndfc = None
    /\ \E owner \in Owners :
          race = [owner |-> owner, router_id |-> "router-1", rows |-> {}, objs |-> {},
                  tdn |-> None, uuid |-> 0,
                  callers |-> [c \in Callers |->
                                 [pc |-> "start", contract |-> {}, cuuid |-> None,
                                  found |-> FALSE, ret |-> None, exc |-> None,
                                  read |-> None]]]

RaceStep(r) ==
    /\ race' = r
    /\ UNCHANGED <<svars, apic, epg_db, contract_db, mgr, clear_node_profiles, uuid,
                   faults, workload, last, callers, store, calc, registry, l3, topo, ndfc>>

At(c, pc_) == race.callers[c].pc = pc_

\* contract = self.db.get_contract_for_router(router_id)
\* cuuid = uuid.uuid4() if not contract else contract.contract_id
ReadContract(c) ==
    /\ At(c, "start")
    /\ LET contract == get_contract_for_router([contract_db |-> race.rows], race.router_id)
       IN  RaceStep([race EXCEPT
                !.uuid = IF contract = {} THEN @ + 1 ELSE @,
                !.callers[c].contract = contract,
                !.callers[c].read = IF contract = {} THEN "no row" ELSE "row",
                !.callers[c].cuuid =
                    IF contract = {} THEN uuid4(race.uuid + 1)
                    ELSE (CHOOSE x \in contract : TRUE).contract_id,
                !.callers[c].pc = "get"])

\* _create_if_not_exist(self.apic.vzBrCP, owner, cuuid): mo.get(*params)
GetBrCP(c) ==
    /\ At(c, "get")
    /\ RaceStep([race EXCEPT !.callers[c].found = (race.callers[c].cuuid \in race.objs),
                             !.callers[c].pc = "create"])

\* _create_if_not_exist: mo.create(*params) when the get found nothing; the
\* subject, the filter and their relation follow
CreateBrCP(c) ==
    /\ At(c, "create")
    /\ RaceStep([race EXCEPT
            !.objs = IF race.callers[c].found THEN @ ELSE @ \cup {race.callers[c].cuuid},
            !.callers[c].pc = "interface"])

\* self.apic.vzRsIf.create(owner, iuuid, tDn=CP_PATH_DN % (owner, cuuid))
CreateRsIf(c) ==
    /\ At(c, "interface")
    /\ RaceStep([race EXCEPT !.tdn = race.callers[c].cuuid,
                             !.callers[c].pc = "store"])

\* if not contract: contract = self.db.write_contract_for_router(...)
StoreContract(c) ==
    /\ At(c, "store")
    /\ LET me == race.callers[c]
           written == write_contract_for_router(
                          [contract_db |-> race.rows, log |-> <<>>],
                          race.owner, race.router_id, me.cuuid, CP_FILTER)
       IN  RaceStep(IF me.contract = {}
                    THEN [race EXCEPT
                            !.rows = written.contract_db,
                            !.callers[c].contract =
                                {x \in written.contract_db : x.contract_id = me.cuuid},
                            !.callers[c].pc = "return"]
                    ELSE [race EXCEPT !.callers[c].pc = "return"])

\* return contract
ReturnContract(c) ==
    /\ At(c, "return")
    /\ RaceStep([race EXCEPT
            !.callers[c].ret = (CHOOSE x \in race.callers[c].contract : TRUE).contract_id,
            !.callers[c].pc = "done"])

\* a request inside the try block is rejected: except (cexc.ApicResponseNotOk,
\* KeyError): self.apic.vzBrCP.delete(owner, cuuid), and the exception leaves
RequestRejected(c) ==
    /\ race.callers[c].pc \in {"get", "create", "interface"}
    /\ RaceStep([race EXCEPT !.objs = @ \ {race.callers[c].cuuid},
                             !.callers[c].exc = "ApicResponseNotOk",
                             !.callers[c].pc = "done"])

RaceNext ==
    \E c \in Callers :
        \/ ReadContract(c)
        \/ GetBrCP(c)
        \/ CreateBrCP(c)
        \/ CreateRsIf(c)
        \/ StoreContract(c)
        \/ ReturnContract(c)
        \/ RequestRejected(c)

SpecRace == RaceInit /\ [][RaceNext]_vars

(***************************************************************************)
(* Ndfc: the network ids kept in the file /tmp/network_map.json.  ndfc     *)
(* holds the map of the file (name -> id, 0 for a name it does not hold)   *)
(* and, for each of two callers that share the file, the position inside   *)
(* create_network / delete_network and the local variables.  The file is   *)
(* read and written without a lock.                                        *)
(***************************************************************************)
NetworkIdStart == 61000
MaxCalls == 4
NetworkNames == {"net-1", "net-2"}
MapKeys == NetworkNames \cup {"dummy"}

\* json.load / json.dump of the whole map
read_json(file) == file
write_json(file, dct) == dct

\* Ndfc.set_network_id: the map read, the entry set
set_network_id(nwkmap, network_name, network_id) ==
    [nwkmap EXCEPT ![network_name] = network_id]

Last(ids) == CHOOSE i \in ids : \A j \in ids : j <= i
\* the ids of the map sorted, the last one plus one
get_next_network_id(file) ==
    LET nwkmap == read_json(file)
        nids == {nwkmap[n] : n \in {k \in MapKeys : nwkmap[k] # 0}}
    IN  Last(nids) + 1

\* Ndfc.reset_network_id: nwkmap.pop(network_name)
reset_network_id(nwkmap, network_name) == [nwkmap EXCEPT ![network_name] = 0]

IdleCaller == [pc |-> "idle", op |-> None, name |-> None, network_id |-> 0,
               nwkmap |-> <<>>, seen |-> {}, ret |-> None]

\* Ndfc.__init__: self.set_network_id("dummy", self.netword_id_start)
InitNdfc ==
    /\ SessionInit /\ EngineInit
    /\ ~clear_node_profiles /\ workload = "networks"
    /\ store = None /\ calc = None /\ registry = None /\ l3 = None
    /\ topo = None /\ race = None
    /\ ndfc = [file |-> write_json(<<>>, set_network_id([k \in MapKeys |-> 0], "dummy",
                                                        NetworkIdStart)),
               callers |-> [c \in Callers |-> IdleCaller],
               overlapped |-> FALSE, n |-> 0]

NdfcStep(d) ==
    /\ ndfc' = d
    /\ UNCHANGED <<svars, apic, epg_db, contract_db, mgr, clear_node_profiles, uuid,
                   faults, workload, last, callers, store, calc, registry, l3, topo, race>>

Busy(c) == ndfc.callers[c].pc # "idle"

\* create_network up to the request: self.network_id = self.get_next_network_id()
CreateNetwork(c, network_name) ==
    /\ ~Busy(c) /\ ndfc.n < MaxCalls
    /\ NdfcStep([ndfc EXCEPT
            !.n = @ + 1,
            !.overlapped = @ \/ \E o \in Callers \ {c} : Busy(o),
            !.callers[c] = [IdleCaller EXCEPT
                !.pc = "create", !.op = "create_network", !.name = network_name,
                !.network_id = get_next_network_id(ndfc.file),
                !.seen = {ndfc.file[k] : k \in MapKeys} \ {0}]])

\* ret = self.ndfc_obj.create_attach_deploy_network(...); if ret:
\* set_network_id begins: glob_nwk_map = self.read_json(self.tmp_filename)
NetworkCreated(c, ret) ==
    /\ ndfc.callers[c].pc = "create"
    /\ NdfcStep(IF ret
                THEN [ndfc EXCEPT !.callers[c].pc = "set",
                                  !.callers[c].nwkmap = read_json(ndfc.file)]
                ELSE [ndfc EXCEPT !.callers[c].pc = "idle", !.callers[c].ret = FALSE])

\* set_network_id ends: the entry set, self.write_json(..., glob_nwk_map)
WriteNetworkId(c) ==
    /\ ndfc.callers[c].pc = "set"
    /\ LET me == ndfc.callers[c]
       IN  NdfcStep([ndfc EXCEPT
                !.file = write_json(@, set_network_id(me.nwkmap, me.name, me.network_id)),
                !.callers[c].pc = "idle", !.callers[c].ret = TRUE])

\* delete_network up to the request
DeleteNetwork(c, network_name) ==
    /\ ~Busy(c) /\ ndfc.n < MaxCalls
    /\ NdfcStep([ndfc EXCEPT
            !.n = @ + 1,
            !.overlapped = @ \/ \E o \in Callers \ {c} : Busy(o),
            !.callers[c] = [IdleCaller EXCEPT
                !.pc = "delete", !.op = "delete_network", !.name = network_name]])

\* ret = self.ndfc_obj.detach_delete_deploy_network(...); if ret:
\* reset_network_id begins: nwkmap = self.read_json(self.tmp_filename)
NetworkDeleted(c, ret) ==
    /\ ndfc.callers[c].pc = "delete"
    /\ NdfcStep(IF ret
                THEN [ndfc EXCEPT !.callers[c].pc = "reset",
                                  !.callers[c].nwkmap = read_json(ndfc.file)]
                ELSE [ndfc EXCEPT !.callers[c].pc = "idle", !.callers[c].ret = FALSE])

\* reset_network_id ends: nwkmap.pop(network_name), KeyError for a name the
\* map read does not hold, and the map written
WriteReset(c) ==
    /\ ndfc.callers[c].pc = "reset"
    /\ LET me == ndfc.callers[c]
       IN  NdfcStep(IF me.nwkmap[me.name] = 0
                    THEN [ndfc EXCEPT !.callers[c].pc = "idle",
                                      !.callers[c].ret = "KeyError"]
                    ELSE [ndfc EXCEPT
                            !.file = write_json(@, reset_network_id(me.nwkmap, me.name)),
                            !.callers[c].pc = "idle", !.callers[c].ret = TRUE])

NdfcNext ==
    \E c \in Callers :
        \/ \E network_name \in NetworkNames : CreateNetwork(c, network_name)
        \/ \E ret \in BOOLEAN : NetworkCreated(c, ret)
        \/ WriteNetworkId(c)
        \/ \E network_name \in NetworkNames : DeleteNetwork(c, network_name)
        \/ \E ret \in BOOLEAN : NetworkDeleted(c, ret)
        \/ WriteReset(c)

SpecNdfc == InitNdfc /\ [][NdfcNext]_vars

(***************************************************************************)
(* Observations on the session used by the properties.                     *)
(***************************************************************************)
SeqRange(q) == {q[i] : i \in 1..Len(q)}
Distinct(q) == \A i, j \in 1..Len(q) : i # j => q[i] # q[j]
\* the address after h in the ring of NumHosts addresses
RingSucc(h) == (h % NumHosts) + 1
InRingOrder(q) == \A i \in 1..(Len(q) - 1) : q[i + 1] = RingSucc(q[i])

IsSend(c) == c.call = "send"
IsLogin(c) == c.call = "login"
Sends == SelectSeq(trace, IsSend)
FirstSend == CHOOSE i \in 1..Len(trace) : IsSend(trace[i]) /\ \A j \in 1..(i - 1) : ~IsSend(trace[j])
\* the calls made after the first data request was answered
AfterFirstSend == SubSeq(trace, FirstSend + 1, Len(trace))
TokenInvalidFirst == Len(Sends) >= 1 /\ Sends[1].outcome = "token_invalid"
Rejected(c) == c.outcome \in {"token_invalid", "other_error"}

(***************************************************************************)
(* C2 as stated: a first invalid-token answer triggers exactly one login   *)
(* and exactly one resend of the same request; a rejected resend raises    *)
(* ApicResponseNotOk with no further login or resend.                      *)
(***************************************************************************)
C2_Original ==
    (pc = "idle" /\ TokenInvalidFirst) =>
        /\ Len(SelectSeq(AfterFirstSend, IsLogin)) = 1
        /\ Len(Sends) = 2
        /\ Sends[2].req = Sends[1].req
        /\ Rejected(Sends[2]) => result = "ApicResponseNotOk"

(***************************************************************************)
(* C2 amended: after a first invalid-token answer _send makes exactly one  *)
(* login(); when that login succeeds it resends the same request exactly   *)
(* once, and a rejected resend raises ApicResponseNotOk with no further    *)
(* login or resend; when that login fails, its error propagates and the    *)
(* request is not resent.                                                  *)
(***************************************************************************)
C2_TokenSelfHealing ==
    TokenInvalidFirst =>
        /\ Len(Sends) <= 2
        /\ Len(SelectSeq(AfterFirstSend, IsLogin)) <= 1
        /\ pc = "idle" =>
            /\ Len(AfterFirstSend) >= 1
            /\ IsLogin(AfterFirstSend[1])
            /\ IF AfterFirstSend[1].outcome = "ok"
               THEN /\ Len(AfterFirstSend) = 2
                    /\ IsSend(AfterFirstSend[2])
                    /\ AfterFirstSend[2].req = Sends[1].req
                    /\ Rejected(AfterFirstSend[2]) => result = "ApicResponseNotOk"
                    /\ AfterFirstSend[2].outcome = "ok" => result = "ok"
               ELSE /\ Len(AfterFirstSend) = 1
                    /\ result \in {"ApicResponseNotOk", "ApicHostNoResponse"}
                                     \cup FALLBACK_EXCEPTIONS

\* the resend was rejected with the invalid-token error again
C2_Witness ==
    /\ pc = "idle"
    /\ Len(Sends) = 2
    /\ Sends[1].outcome = "token_invalid"
    /\ Sends[2].outcome = "token_invalid"
    /\ result = "ApicResponseNotOk"

(***************************************************************************)
(* C3: when the current address and the following NumHosts-2 addresses     *)
(* raise connectivity errors and the last address answers, the call        *)
(* returns that address's answer, and api_base stays on that address: the  *)
(* next call tries it first.                                               *)
(***************************************************************************)
C3_Failover ==
    /\ (done.host # 0 /\ Len(done.failed) < NumHosts) =>
          /\ Distinct(done.failed)
          /\ InRingOrder(Append(done.failed, done.host))
          /\ done.host \notin SeqRange(done.failed)
    /\ (done.host # 0 /\ attempts = <<>>) => Head(api_base) = done.host
    /\ (done.host # 0 /\ pc # "idle" /\ attempts # <<>>) => attempts[1] = done.host

C3_Witness ==
    /\ pc = "idle"
    /\ op.kind = "data"
    /\ result = "ok"
    /\ Len(done.failed) = NumHosts - 1
    /\ done.host # 0
    /\ done.host = Head(api_base)

(***************************************************************************)
(* C4 as stated: a request is attempted at most once per address; when     *)
(* all addresses raise connectivity errors exactly NumHosts attempts are   *)
(* made, each on a distinct address, and the last error propagates.        *)
(***************************************************************************)
C4_Original ==
    /\ Distinct(done.failed)
    /\ done.err # None => Len(done.failed) = NumHosts

(***************************************************************************)
(* C4 amended: a request is attempted at most NumHosts+1 times: once on    *)
(* each address in ring order and then once more on the address tried      *)
(* first; when every attempt raises a connectivity error exactly           *)
(* NumHosts+1 attempts are made and the error of the last one propagates   *)
(* (login() turning a Timeout into ApicHostNoResponse).                    *)
(***************************************************************************)
C4_AttemptBound ==
    /\ Len(attempts) <= NumHosts
    /\ Distinct(attempts) /\ InRingOrder(attempts)
    /\ Len(done.failed) <= NumHosts + 1
    /\ done.host # 0 => Len(done.failed) <= NumHosts
    /\ done.err # None =>
          /\ Len(done.failed) = NumHosts + 1
          /\ Distinct(SubSeq(done.failed, 1, NumHosts))
          /\ InRingOrder(done.failed)
          /\ done.failed[NumHosts + 1] = done.failed[1]
    /\ (pc = "idle" /\ trace # <<>> /\ trace[Len(trace)].outcome = "raised") =>
          /\ done.err # None
          /\ result = IF IsLogin(trace[Len(trace)]) THEN LoginException(done.err)
                                                    ELSE done.err

C4_Witness ==
    /\ pc = "idle"
    /\ op.kind = "data"
    /\ done.err = "ConnectionError"
    /\ result = "ConnectionError"
    /\ Len(done.failed) = NumHosts + 1

(***************************************************************************)
(* Observations on the manager's last call used by the properties.         *)
(***************************************************************************)
IsRemote(e) == e.cls # "db"
RemoteWrites(log) == SelectSeq(log, IsRemote)
\* the objects of a remote state, without their attributes
Keys(objs) == {<<o.cls, o.params>> : o \in objs}
\* the places of the posts of class c in the log
Posts(log, c) == {i \in 1..Len(log) : log[i].cls = c}
Min(S) == CHOOSE i \in S : \A j \in S : i <= j

EnsureOps == {"ensure_infra_created_on_apic", "ensure_bd_created_on_apic",
              "ensure_epg_created_for_network", "create_tenant_filter",
              "get_router_contract"}
Ensured == last.op \in EnsureOps
Returned == last.op \notin {None, "external"} /\ last.exc = NoExc
Failed == last.op \notin {None, "external"} /\ last.exc # NoExc

EpgArgs(tenant_id, network_id) == <<tenant_id, app_profile_name, network_id>>
EpgCall == last.op = "ensure_epg_created_for_network"
\* the EPG row of the call's network and the EPG of the call, before the call
EpgRowBefore == {e \in last.pre.epg_db : e.network_id = last.args[2]}
EpgBefore == Lookup(last.pre.apic, "fvAEPg", EpgArgs(last.args[1], last.args[2]))

(***************************************************************************)
(* C1: when an ensure operation is called twice with identical arguments,  *)
(* with no remote failure and nothing happening in between, the second     *)
(* call issues no remote write and returns what the first returned.        *)
(***************************************************************************)
C1_Idempotence ==
    [][(/\ last.op \in EnsureOps
        /\ last'.op = last.op
        /\ last'.args = last.args
        /\ last.exc = NoExc
        /\ last'.exc = NoExc)
       => /\ RemoteWrites(last'.log) = <<>>
          /\ last'.ret = last.ret]_vars

(***************************************************************************)
(* C5: when the EPG row of a network exists and the EPG it names has been  *)
(* deleted on the controller, ensure_epg_created_for_network removes the   *)
(* stale row, re-creates the EPG and returns without raising.              *)
(***************************************************************************)
C5_SelfHealing ==
    (EpgCall /\ EpgRowBefore # {} /\ EpgBefore = {}) =>
        /\ last.exc = NoExc
        /\ Lookup(apic, "fvAEPg", EpgArgs(last.args[1], last.args[2])) # {}

(***************************************************************************)
(* C6: when any exception leaves a multi-step ensure operation after one   *)
(* of its remote writes succeeded, and no rollback delete failed, no       *)
(* object the call created remains on the controller.                      *)
(***************************************************************************)
C6_RollbackOnAnyException ==
    (Ensured /\ Failed /\ RemoteWrites(last.log) # <<>> /\ last.logged = {}) =>
        \A i \in 1..Len(last.log) :
            (last.log[i].status = "created"
                /\ <<last.log[i].cls, last.log[i].params>> \notin Keys(last.pre.apic))
            => <<last.log[i].cls, last.log[i].params>> \notin Keys(apic)

(***************************************************************************)
(* C7: when ensure_infra_created_on_apic has created the VLAN namespace    *)
(* and the physical domain and the creation of the entity profile fails,   *)
(* the namespace and the domain are deleted (delete writes follow their    *)
(* creation) and the original error is raised.                             *)
(***************************************************************************)
InfraCall == last.op = "ensure_infra_created_on_apic"
CreatedAt(c, params) ==
    {i \in 1..Len(last.log) : /\ last.log[i].cls = c
                              /\ last.log[i].params = params
                              /\ last.log[i].status = "created"}
DeletedAfter(c, params, S) ==
    \E i \in 1..Len(last.log) : /\ last.log[i].cls = c
                                /\ last.log[i].params = params
                                /\ last.log[i].status = "deleted"
                                /\ \A j \in S : j < i
\* the call created the namespace and the domain, and the creation of the
\* entity profile failed: its except block ran
ThirdCreationFailed ==
    /\ InfraCall /\ Failed
    /\ CreatedAt("fvnsVlanInstP", <<apic_vlan_ns_name, "static">>) # {}
    /\ CreatedAt("physDomP", <<apic_domain_name>>) # {}
    /\ <<"infraAttEntityP", <<apic_entity_profile>>>> \in last.undone

C7_InfraRollback ==
    ThirdCreationFailed =>
        /\ DeletedAfter("fvnsVlanInstP", <<apic_vlan_ns_name, "static">>,
                        CreatedAt("fvnsVlanInstP", <<apic_vlan_ns_name, "static">>))
        /\ DeletedAfter("physDomP", <<apic_domain_name>>,
                        CreatedAt("physDomP", <<apic_domain_name>>))
        /\ last.exc = last.first

(***************************************************************************)
(* C8: when an ensure call fails and its rollback deletes succeed, every   *)
(* remote object that existed before the call still exists and no object   *)
(* created by the call remains.                                            *)
(***************************************************************************)
RolledBack == Ensured /\ Failed /\ last.undone # {} /\ last.logged = {}

C8_PriorState ==
    RolledBack => Keys(apic) = Keys(last.pre.apic)

EpgCreated == EpgCall /\ Returned /\ EpgRowBefore = {} /\ EpgBefore = {}
RowWritten ==
    /\ Len(last.log) >= 1
    /\ last.log[Len(last.log)] = DbEntry("epg", last.args[2])
    /\ Posts(last.log, "db") = {Len(last.log)}
    /\ [network_id |-> last.args[2], epg_id |-> last.args[2]] \in epg_db
SecondCallWritesNothing == (EpgCall /\ Returned /\ EpgRowBefore # {}) => last.log = <<>>

C10_Original ==
    /\ EpgCreated =>
        /\ Posts(last.log, "fvRsBd") # {}
        /\ Posts(last.log, "fvAEPg") # {}
        /\ Posts(last.log, "fvRsDomAtt") # {}
        /\ Min(Posts(last.log, "fvRsBd")) < Min(Posts(last.log, "fvAEPg"))
        /\ Min(Posts(last.log, "fvAEPg")) < Min(Posts(last.log, "fvRsDomAtt"))
        /\ RowWritten
    /\ SecondCallWritesNothing

(***************************************************************************)
(* C10 amended: with no EPG row and no EPG on the controller, a call of    *)
(* ensure_epg_created_for_network that returns has created fvAEPg, then    *)
(* posted fvRsBd once, then fvRsDomAtt once (each after a post of its      *)
(* containers), and written the row net -> net after the three; a call     *)
(* that finds the row performs no write at all.                            *)
(***************************************************************************)
C10_EpgCreationOrder ==
    /\ EpgCreated =>
        /\ Posts(last.log, "fvAEPg") # {}
        /\ last.log[Min(Posts(last.log, "fvAEPg"))].status = "created"
        /\ Cardinality(Posts(last.log, "fvRsBd")) = 1
        /\ Cardinality(Posts(last.log, "fvRsDomAtt")) = 1
        /\ Min(Posts(last.log, "fvAEPg")) < Min(Posts(last.log, "fvRsBd"))
        /\ Min(Posts(last.log, "fvRsBd")) < Min(Posts(last.log, "fvRsDomAtt"))
        /\ \A i \in Posts(last.log, "fvRsBd") \cup Posts(last.log, "fvRsDomAtt") :
              i > 1 /\ last.log[i - 1].cls = "fvAEPg"
        /\ RowWritten
    /\ SecondCallWritesNothing

\* tenantA's net-42 got its EPG and its row
C10_Witness ==
    /\ EpgCreated
    /\ last.args = <<"tenantA", "net-42">>
    /\ Lookup(apic, "fvRsDomAtt",
              <<"tenantA", app_profile_name, "net-42",
                dn("physDomP", <<apic_domain_name>>)>>) # {}
    /\ epg_db = {[network_id |-> "net-42", epg_id |-> "net-42"]}

(***************************************************************************)
(* C11: ensure_epg_created_for_network and get_router_contract write the   *)
(* local row only after every remote write of the invocation has           *)
(* succeeded: the row's write is the last entry of the invocation, and     *)
(* after a failed invocation the DB holds the rows it held before.         *)
(***************************************************************************)
RowOps == {"ensure_epg_created_for_network", "get_router_contract"}
RowCall == last.op \in RowOps

C11_RecordOnlyOnSuccess ==
    /\ (RowCall /\ Failed) =>
          /\ epg_db = last.pre.epg_db
          /\ contract_db = last.pre.contract_db
          /\ Posts(last.log, "db") = {}
    /\ (RowCall /\ Posts(last.log, "db") # {}) =>
          /\ Returned
          /\ Posts(last.log, "db") = {Len(last.log)}
          /\ Len(RemoteWrites(last.log)) >= 1

\* a get_router_contract that failed after remote writes, the DB still empty
C11_Witness ==
    /\ last.op = "get_router_contract"
    /\ Failed
    /\ Len(RemoteWrites(last.log)) >= 2
    /\ last.pre.contract_db = {}
    /\ contract_db = {}

(***************************************************************************)
(* C12: when the process stops in the middle of an ensure operation (some  *)
(* remote writes done, no row written), the next invocation with the same  *)
(* arguments that runs without failure ends with a row for the key, the    *)
(* remote object that row names, and no other remote object created for    *)
(* the key by the two invocations: no orphaned duplicate remains.          *)
(***************************************************************************)
StoppedMidway ==
    /\ RowCall
    /\ last.exc.kind = Stopped
    /\ Len(RemoteWrites(last.log)) >= 1
    /\ Posts(last.log, "db") = {}
Contracts(objs) == {o \in objs : o.cls = "vzBrCP"}
\* after the operation: the row of the key and the object it names; for a
\* router, also no contract on the controller besides the named one and those
\* of base
Recovered(objs, epgs, contracts, base) ==
    IF last.op = "get_router_contract"
    THEN /\ get_contract_for_router([contract_db |-> contracts], last.args[1]) # {}
         /\ \A r \in get_contract_for_router([contract_db |-> contracts], last.args[1]) :
               /\ Lookup(objs, "vzBrCP", <<r.tenant_id, r.contract_id>>) # {}
               /\ \A o \in Contracts(objs) \ Contracts(base) :
                     o.params = <<r.tenant_id, r.contract_id>>
    ELSE /\ get_epg_for_network([epg_db |-> epgs], last.args[2]) # {}
         /\ Lookup(objs, "fvAEPg", EpgArgs(last.args[1], last.args[2])) # {}

C12_CrashRecovery ==
    [][(/\ StoppedMidway
        /\ last'.op = last.op
        /\ last'.args = last.args
        /\ last'.exc = NoExc) => Recovered(apic', epg_db', contract_db', last.pre.apic)]_vars

(***************************************************************************)
(* Observations on the steps of the session.                               *)
(***************************************************************************)
\* a public data operation is invoked in this step
DataInvoked == pc = "idle" /\ now' = now /\ op'.kind = "data" /\ trace' = <<>>
\* a _do_request call is under way
InFlight == pc # "idle"

(***************************************************************************)
(* C13: a public data operation invoked while the session is not           *)
(* authenticated raises ApicSessionNotLoggedIn and sends no HTTP request.  *)
(***************************************************************************)
C13_Unauthenticated ==
    [][(DataInvoked /\ authentication = None) =>
          /\ pc' = "idle"
          /\ result' = "ApicSessionNotLoggedIn"
          /\ trace' = <<>>
          /\ attempts' = attempts
          /\ done' = done]_vars

\* a data operation refused on a session that had logged in before
C13_Witness ==
    /\ pc = "idle"
    /\ op.kind = "data"
    /\ result = "ApicSessionNotLoggedIn"
    /\ username # None
    /\ cookie # None
    /\ trace = <<>>

(***************************************************************************)
(* C14: a public data operation invoked on an authenticated session sends  *)
(* a refresh first when now > session_deadline, and sends the data request *)
(* only after that refresh, or the login it falls back to, has succeeded;  *)
(* when now <= session_deadline the data request is sent first and no      *)
(* refresh is sent in the operation.                                       *)
(***************************************************************************)
IsRefresh(c) == c.call = "refresh"
Renewal(c) == c.call \in {"refresh", "login"} /\ c.outcome = "ok"
\* a refresh is the first call if it is made at all, and a data request
\* that follows other calls follows a successful refresh or login
SendsAfterRenewal ==
    /\ \A i \in 1..Len(trace) : IsRefresh(trace[i]) => i = 1
    /\ \A i \in 2..Len(trace) : IsSend(trace[i]) => Renewal(trace[i - 1])
    /\ (pc = "send" /\ trace # <<>>) => Renewal(trace[Len(trace)])

C14_ExpiredCase ==
    /\ [][(DataInvoked /\ authentication # None) =>
             IF now > session_deadline
             THEN pc' = "refresh" /\ tries' = 0 /\ attempts' = attempts
             ELSE pc' = "send" /\ tries' = 0 /\ attempts' = attempts]_vars
    /\ [](op.kind = "data" => SendsAfterRenewal)

\* the refresh fell back to a login, and the data request followed it
C14_Witness ==
    /\ pc = "idle"
    /\ op.kind = "data"
    /\ Len(trace) = 3
    /\ IsRefresh(trace[1]) /\ trace[1].outcome = "token_invalid"
    /\ IsLogin(trace[2]) /\ trace[2].outcome = "ok"
    /\ IsSend(trace[3])
    /\ result = "ok"

(***************************************************************************)
(* C15 as stated: a refresh rejected with the invalid-token error performs *)
(* one full login and does not fail; a refresh rejected with any other     *)
(* error clears the authentication and raises ApicResponseNotOk.           *)
(***************************************************************************)
RefreshAnswered(r) == trace # <<>> /\ IsRefresh(trace[1]) /\ trace[1].outcome = r
\* the refresh and what it called are over
RefreshOver == pc \in {"idle", "send"}
\* the calls before the first data request
Renewals == IF Sends = <<>> THEN trace ELSE SubSeq(trace, 1, FirstSend - 1)
RefreshRaisesNotOk ==
    RefreshAnswered("other_error") =>
        /\ pc = "idle"
        /\ Len(trace) = 1
        /\ authentication = None
        /\ result = "ApicResponseNotOk"

C15_Original ==
    /\ (RefreshAnswered("token_invalid") /\ RefreshOver) =>
          /\ Len(SelectSeq(Renewals, IsLogin)) = 1
          /\ Len(trace) >= 3 \/ pc = "send"
    /\ RefreshRaisesNotOk

(***************************************************************************)
(* C15 amended: a refresh rejected with the invalid-token error performs   *)
(* exactly one login with the remembered credentials; it returns when that *)
(* login succeeds, and the login's error propagates when it fails (after a *)
(* rejected login the authentication is cleared).  A refresh rejected with *)
(* any other error clears the authentication and raises ApicResponseNotOk. *)
(***************************************************************************)
C15_RefreshSelfHealing ==
    /\ RefreshAnswered("token_invalid") =>
          IF Len(trace) = 1
          THEN /\ pc = "login"
               /\ after = "refresh"
               /\ loginArgs = <<username, password>>
          ELSE /\ IsLogin(trace[2])
               /\ Len(SelectSeq(Renewals, IsLogin)) = 1
               /\ IF trace[2].outcome = "ok"
                  THEN Len(trace) >= 3 \/ pc = "send"
                  ELSE /\ pc = "idle"
                       /\ Len(trace) = 2
                       /\ result \in {"ApicResponseNotOk", "ApicHostNoResponse"}
                                        \cup FALLBACK_EXCEPTIONS
                       /\ trace[2].outcome = "rejected" =>
                             authentication = None /\ result = "ApicResponseNotOk"
    /\ RefreshRaisesNotOk

\* the login the refresh fell back to was rejected
C15_Witness ==
    /\ pc = "idle"
    /\ RefreshAnswered("token_invalid")
    /\ Len(trace) = 2
    /\ trace[2].outcome = "rejected"
    /\ result = "ApicResponseNotOk"

(***************************************************************************)
(* C16: when the server rejects a login, the session ends unauthenticated  *)
(* (authentication cleared, no token held) and the login raises            *)
(* ApicResponseNotOk; the session becomes authenticated again only by a    *)
(* login that succeeds, and until then every data operation raises         *)
(* ApicSessionNotLoggedIn.                                                 *)
(***************************************************************************)
LoginRejected ==
    /\ trace # <<>>
    /\ IsLogin(trace[Len(trace)])
    /\ trace[Len(trace)].outcome = "rejected"

C16_LoginFailure ==
    /\ [](LoginRejected =>
             /\ pc = "idle"
             /\ authentication = None
             /\ cookie = None
             /\ result = "ApicResponseNotOk")
    /\ [][(authentication = None /\ authentication' # None) =>
             /\ pc = "login"
             /\ IsLogin(trace'[Len(trace')])
             /\ trace'[Len(trace')].outcome = "ok"]_vars
    /\ [][(DataInvoked /\ authentication = None) =>
             result' = "ApicSessionNotLoggedIn" /\ authentication' = None]_vars

\* a login rejected on a session that was authenticated by an earlier login
C16_Witness ==
    /\ LoginRejected
    /\ op.kind = "login"
    /\ username # None
    /\ authentication = None
    /\ cookie = None

(***************************************************************************)
(* C17: after logout() finishes on an authenticated session, whether it    *)
(* returns or raises, the session is locally unauthenticated and its token *)
(* is cleared.                                                             *)
(***************************************************************************)
C17_LogoutClears ==
    (op.kind = "logout" /\ pc = "idle") => (authentication = None /\ cookie = None)

(***************************************************************************)
(* C18: a successful login or refresh sets session_timeout to the server's *)
(* refreshTimeoutSeconds minus the safety margin and session_deadline to   *)
(* the completion time plus session_timeout; nothing else changes          *)
(* session_timeout; and every answered data request, whatever its status,  *)
(* sets session_deadline to its completion time plus session_timeout.      *)
(***************************************************************************)
Renewed(q) == {i \in 1..Len(q) : Renewal(q[i])}
Max(S) == CHOOSE i \in S : \A j \in S : j <= i
\* the call that ends in this step
Ended == trace'[Len(trace')]
CallEnds == trace' # trace /\ trace' # <<>>

C18_RenewalDeadline ==
    /\ [][CallEnds =>
            /\ Renewal(Ended) =>
                  /\ session_timeout' = Ended.timeout - SafetyMargin
                  /\ session_deadline' = now' + (Ended.timeout - SafetyMargin)
            /\ (IsSend(Ended) /\ Ended.outcome # "raised") =>
                  /\ session_timeout' = session_timeout
                  /\ session_deadline' = now' + session_timeout]_vars
    /\ [][session_timeout' # session_timeout => (CallEnds /\ Renewal(Ended))]_vars
    /\ [](Renewed(trace) # {} =>
             session_timeout = trace[Max(Renewed(trace))].timeout - SafetyMargin)

\* a rejected data request, answered after time had passed, moved the deadline
C18_Witness ==
    /\ pc = "idle"
    /\ op.kind = "data"
    /\ Len(trace) = 1
    /\ trace[1].outcome = "other_error"
    /\ now >= 2
    /\ session_timeout = 7 - SafetyMargin
    /\ session_deadline = now + session_timeout

(***************************************************************************)
(* C19: username and password change only when a login succeeds, and then  *)
(* to what that login submitted; an authenticated session holds both; and  *)
(* the login made by refresh or by the invalid-token retry submits the     *)
(* stored username and password, neither of them absent.                   *)
(***************************************************************************)
LoginSucceeds == pc = "login" /\ CallEnds /\ IsLogin(Ended) /\ Ended.outcome = "ok"
ImplicitLogin == pc = "login" /\ after \in {"refresh", "resend"}

C19_RememberedCredentials ==
    /\ [][LoginSucceeds => (username' = loginArgs[1] /\ password' = loginArgs[2])]_vars
    /\ [][(username' # username \/ password' # password) => LoginSucceeds]_vars
    /\ [](authentication # None => (username # None /\ password # None))
    /\ [](ImplicitLogin =>
             /\ loginArgs = <<username, password>>
             /\ username # None
             /\ password # None)

\* the invalid-token retry logs in with the stored name and password
C19_Witness ==
    /\ ImplicitLogin
    /\ after = "resend"
    /\ authentication # None
    /\ cookie = None
    /\ loginArgs = <<"admin", "pw2">>

(***************************************************************************)
(* C20: two callers share one session without a lock.  login() installs    *)
(* the empty cookie when it starts, every request carries the session's    *)
(* cookie of the moment it is made, and a data request that leaves with    *)
(* the empty cookie leaves while the other caller is inside login().       *)
(***************************************************************************)
Starts(c, label) == callers[c].pc # label /\ callers'[c].pc = label
Other(c) == CHOOSE d \in Callers : d # c

C20_UnsafeSharing ==
    /\ [][\A c \in Callers : Starts(c, "login") => cookie' = None]_vars
    /\ [][\A c \in Callers :
             (Starts(c, "send") \/ Starts(c, "refresh")) => callers'[c].sent = cookie']_vars
    /\ [][\A c \in Callers :
             (Starts(c, "send") /\ callers'[c].sent = None) =>
                 callers[Other(c)].pc = "login"]_vars

\* A's data request is in flight with the empty cookie that B's login(),
\* still waiting for its answer, installed
C20_Witness ==
    /\ callers["A"].pc = "send"
    /\ callers["A"].sent = None
    /\ callers["B"].pc = "login"
    /\ cookie = None
    /\ authentication # None

(***************************************************************************)
(* C21 as stated: clean() never interleaves with an individual create      *)
(* call: no create is under way (row added, _flush not finished) while     *)
(* clean() is under way.                                                   *)
(***************************************************************************)
CleanUnderWay == store.clean \in 0..Len(CleanOrder)
CreateUnderWay == store.indiv \in {"added", "flushing"}
BothReturned == store.clean = Len(CleanOrder) + 1 /\ store.indiv = "done"

C21_Original == ~(CleanUnderWay /\ CreateUnderWay)

(***************************************************************************)
(* C21 amended: clean() and the _flush() of an individual create exclude   *)
(* each other (the session.add before the _flush is outside the lock and   *)
(* may run while clean() is under way); and when both calls have returned, *)
(* nothing is left pending and the tables hold either nothing (the create  *)
(* took effect before the wipe) or exactly the created row (after it).     *)
(***************************************************************************)
C21_FlushSerialized ==
    /\ ~(CleanUnderWay /\ store.indiv = "flushing")
    /\ store.lock = None <=> ~(CleanUnderWay \/ store.indiv = "flushing")
    /\ BothReturned =>
          /\ store.pending = {}
          /\ store.rows \in {{}, {store.row}}

\* the row was added while clean() held the lock, and survived the wipe
C21_Witness ==
    /\ BothReturned
    /\ store.overlap
    /\ store.rows = {store.row}
    /\ store.row.table = "NetworkEPG"

(***************************************************************************)
(* C22: create(params) posts, before the target, every creatable ancestor  *)
(* of the target's container chain up to the root, also those above a      *)
(* non-creatable one, root-most first, and the target last.                *)
(***************************************************************************)
RECURSIVE Ancestors(_)
\* the container chain of c, root first, without c
Ancestors(c) ==
    IF container(c) = None THEN <<>> ELSE Append(Ancestors(container(c)), container(c))
CreatableAncestors(c) == SelectSeq(Ancestors(c), can_create)

C22_ContainerFirst ==
    calc.fn = "create" =>
        LET c == calc.args[1]
            chain == CreatableAncestors(c)
            log == calc.value
        IN  /\ Len(log) = Len(chain) + 1
            /\ \A i \in 1..Len(chain) :
                  /\ log[i].cls = chain[i]
                  /\ log[i].params = SubSeq(calc.args[2], 1, param_count(chain[i]))
            /\ log[Len(log)].cls = c
            /\ log[Len(log)].params = calc.args[2]

(***************************************************************************)
(* C23: ensure_path_created_for_port for a host with no recorded (switch,  *)
(* module, port) raises ApicHostNotConfigured and creates no path          *)
(* attachment; for a host with entries it ends with one path attachment    *)
(* per recorded (switch, module, port).                                    *)
(***************************************************************************)
Recorded(links, host) == {<<l.swid, l.module, l.port>> : l \in {k \in links : k.host = host}}

C23_MissingInventory ==
    calc.fn = "ensure_path_created_for_port" =>
        IF Recorded(calc.args[1], calc.args[2]) = {}
        THEN calc.value = [exc |-> "ApicHostNotConfigured", paths |-> {}]
        ELSE /\ calc.value.exc = None
             /\ calc.value.paths =
                   {PORT_DN_PATH(t) : t \in Recorded(calc.args[1], calc.args[2])}
             /\ Cardinality(calc.value.paths) =
                   Cardinality(Recorded(calc.args[1], calc.args[2]))

(***************************************************************************)
(* C24: for every list of distinct port numbers, in any order,             *)
(* group_by_ranges yields, in ascending order, exactly the maximal runs    *)
(* (a, b) of consecutive integers of the input: the runs are disjoint and  *)
(* not adjacent, and their union is the input set.                         *)
(***************************************************************************)
MaximalRuns(set) ==
    {r \in set \X set :
        /\ r[1] <= r[2]
        /\ \A n \in r[1]..r[2] : n \in set
        /\ (r[1] - 1) \notin set
        /\ (r[2] + 1) \notin set}

RunsOf(ranges) == {ranges[k] : k \in DOMAIN ranges}

C24_ContiguousRanges ==
    calc.fn = "group_by_ranges" =>
        LET input == {calc.args[1][k] : k \in DOMAIN calc.args[1]}
            out == calc.value
        IN  /\ RunsOf(out) = MaximalRuns(input)
            /\ \A k \in DOMAIN out : out[k][1] <= out[k][2]
            /\ \A k \in 1..(Len(out) - 1) : out[k][2] + 1 < out[k + 1][1]
            /\ UNION {out[k][1]..out[k][2] : k \in DOMAIN out} = input

\* a list given out of order, with a run of three and a single port
C24_Witness ==
    /\ calc.fn = "group_by_ranges"
    /\ calc.args = <<<<5, 1, 3, 2>>>>
    /\ calc.value = <<<<1, 3>>, <<5, 5>>>>

(***************************************************************************)
(* C25: for each switch module, ensure_infra_created_for_switch creates    *)
(* one port block per maximal contiguous run of the module's recorded      *)
(* port numbers, fromPort and toPort being the ends of the run, not one    *)
(* block per port.                                                         *)
(***************************************************************************)
C25_OneBlockPerRun ==
    calc.fn = "ensure_infra_created_for_switch" =>
        \A k \in DOMAIN calc.value :
            LET blocks == calc.value[k]
                ports == UNION {blocks[b].fromPort..blocks[b].toPort : b \in DOMAIN blocks}
            IN  /\ {<<blocks[b].fromPort, blocks[b].toPort>> : b \in DOMAIN blocks}
                      = MaximalRuns(ports)
                /\ Len(blocks) = Cardinality(MaximalRuns(ports))

(***************************************************************************)
(* C27: for every registered class, dn_fmt is the container's dn_fmt, a    *)
(* "/" and the class's rn_fmt ("uni/" and the rn_fmt for a class with no   *)
(* container); param_count is the number of slots of dn_fmt, the sum of    *)
(* the slots of the rn_fmt along the container chain; can_create is true   *)
(* exactly when the class is flagged creatable and its rn_fmt has a slot.  *)
(***************************************************************************)
\* a format written out, %s in its slots
Written(fmt) == Format(fmt, [k \in 1..(Len(fmt) - 1) |-> "%s"])
RECURSIVE Sum(_)
Sum(ns) == IF ns = <<>> THEN 0 ELSE Head(ns) + Sum(Tail(ns))
ChainSlots(c) ==
    LET chain == Append(Ancestors(c), c)
    IN  Sum([k \in DOMAIN chain |-> Len(supported_mos[chain[k]].rn_fmt) - 1])

C27_DerivedMetadata ==
    calc.fn = "ManagedObjectClass" =>
        LET c == calc.args[1]
            mo == supported_mos[c]
        IN  /\ Written(calc.value.dn_fmt) =
                  IF mo.container = None
                  THEN "uni/" \o Written(mo.rn_fmt)
                  ELSE Written(dn_fmt(mo.container)) \o "/" \o Written(mo.rn_fmt)
            /\ calc.value.param_count = Len(calc.value.dn_fmt) - 1
            /\ calc.value.param_count = ChainSlots(c)
            /\ calc.value.param_count = param_count(c)
            /\ calc.value.can_create = (mo.can_create /\ Len(mo.rn_fmt) > 1)

\* a class flagged creatable whose rn_fmt has no slot, two containers deep
C27_Witness ==
    /\ calc.fn = "ManagedObjectClass"
    /\ calc.args = <<"vzAny">>
    /\ Written(calc.value.dn_fmt) = "uni/tn-%s/ctx-%s/any"
    /\ calc.value.param_count = 2
    /\ ~calc.value.can_create

(***************************************************************************)
(* C26: the container relation of the class table is acyclic and every     *)
(* chain ends at a class with no container, so resolving a registered      *)
(* class terminates; and dn(values) of a class is the same string on       *)
(* every call: every instance resolved for a class carries the same        *)
(* format, of the arity of the class, and a derived format never changes.  *)
(***************************************************************************)
RECURSIVE ChainEnds(_, _)
ChainEnds(c, fuel) ==
    IF c = None THEN TRUE
    ELSE IF fuel = 0 \/ c \notin DOMAIN supported_mos THEN FALSE
    ELSE ChainEnds(container(c), fuel - 1)
Terminates(c) == ChainEnds(c, Cardinality(DOMAIN supported_mos))
Derived == {i \in DOMAIN registry.insts : registry.insts[i].dn_fmt # <<>>}

C26_Deterministic ==
    /\ [](/\ \A c \in DOMAIN supported_mos : Terminates(c)
          /\ \A i, j \in Derived :
                registry.insts[i].klass = registry.insts[j].klass
                    => registry.insts[i].dn_fmt = registry.insts[j].dn_fmt
          /\ \A x \in Callers :
                registry.got[x] # 0 =>
                    /\ registry.got[x] \in Derived
                    /\ registry.insts[registry.got[x]].klass = registry.mo_class
                    /\ count(registry.insts[registry.got[x]].dn_fmt)
                          = ChainSlots(registry.mo_class))
    /\ [][\A i \in Derived : registry.insts'[i].dn_fmt = registry.insts[i].dn_fmt]_vars

\* both callers resolved fvSubnet, two containers deep, and dn gives the
\* same name on the instance of either
C26_Witness ==
    /\ registry.mo_class = "fvSubnet"
    /\ \A x \in Callers :
          /\ registry.got[x] # 0
          /\ Format(registry.insts[registry.got[x]].dn_fmt, ValuesFor("fvSubnet"))
                = "uni/tn-v1/BD-v2/subnet-[v3]"

(***************************************************************************)
(* C28: under any interleaving of concurrent first resolutions of the same *)
(* class name, one instance is created and published, every caller         *)
(* receives that instance, and _dn_fmt runs once per class.                *)
(***************************************************************************)
C28_MemoizedSingleton ==
    /\ \A i, j \in DOMAIN registry.insts :
          registry.insts[i].klass = registry.insts[j].klass => i = j
    /\ \A x, y \in Callers :
          (registry.got[x] # 0 /\ registry.got[y] # 0) => registry.got[x] = registry.got[y]
    /\ \A c \in DOMAIN supported_mos : registry.runs[c] <= 1

(***************************************************************************)
(* C29: when the parent's add_router_interface raises after the manager    *)
(* programmed the controller, the plugin calls manager                     *)
(* .remove_router_interface once, with the mapped identifiers it passed to *)
(* manager.add_router_interface, and the parent's exception is what leaves *)
(* the operation; the call deletes the contract relation the EPG holds as  *)
(* provider.  When the parent returns, no compensating call is made.       *)
(***************************************************************************)
ParentRaised(fn) == l3.op = fn /\ ~l3.fail.manager /\ l3.fail.parent # None
ManagerCalls(fn) == SelectSeq(l3.calls, LAMBDA c : c.on = "manager" /\ c.fn = fn)

C30_CompensationOnRemove ==
    /\ ParentRaised("remove_router_interface") =>
          /\ Len(l3.calls) = 3
          /\ l3.calls[1] = [on |-> "manager", fn |-> "remove_router_interface",
                            args |-> map_names(l3.ids)]
          /\ l3.calls[2].on = "super"
          /\ l3.calls[3] = [on |-> "manager", fn |-> "add_router_interface",
                            args |-> l3.calls[1].args]
          /\ Len(ManagerCalls("add_router_interface")) = 1
          /\ l3.exc = l3.fail.parent
          /\ ~l3.fail.undo =>
                /\ Relation("fvRsProv", map_names(l3.ids)) \in l3.relations
                /\ Relation("fvRsCons", map_names(l3.ids)) \in l3.relations
                /\ mapped(l3.ids[3]) \in l3.provider
    /\ (l3.op = "remove_router_interface" /\ ~l3.fail.manager /\ l3.fail.parent = None) =>
          /\ ManagerCalls("add_router_interface") = <<>>
          /\ l3.exc = None

\* the interface was added before, its removal fails in the parent
C30_Witness ==
    /\ ParentRaised("remove_router_interface")
    /\ ~l3.fail.undo
    /\ Relation("fvRsProv", map_names(l3.ids)) \in l3.pre.relations
    /\ l3.exc = "DBError"
    /\ Relation("fvRsProv", map_names(l3.ids)) \in l3.relations

(***************************************************************************)
(* C31: when add_hostlink failed while the infrastructure of the switch or *)
(* the paths of the host were created, a later add_hostlink with the same  *)
(* arguments, as the topology service issues when the link is reported     *)
(* again, creates them again: once it returns, the node profile, a port    *)
(* block of the port and the path of the link exist.                       *)
(***************************************************************************)
InfraExists(link) ==
    /\ <<"infraNodeP", link[4]>> \in topo.objs
    /\ \E o \in topo.objs : o[1] = "infraPortBlk" /\ o[5] = link[6] /\ o[6] = link[6]
    /\ <<"fvRsPathAtt", PORT_DN_PATH(<<link[4], link[5], link[6]>>)>> \in topo.objs

C31_RecoveryByReinvocation ==
    (/\ topo.op = "update_link" /\ topo.arg \in ReportedLinks
     /\ topo.again /\ topo.exc = None
     /\ topo.peers[<<topo.arg[1], topo.arg[2]>>] = topo.arg)
        => InfraExists(topo.arg)

(***************************************************************************)
(* C33: across the calls of ensure_infra_created_for_switch for a switch,  *)
(* also those that fail part-way or find no recorded port, at most one     *)
(* port profile is ever created on the controller for the switch and every *)
(* call uses the same profile id.                                          *)
(***************************************************************************)
C33_OneProfilePerSwitch ==
    \A sw \in {"101", "102"} :
        /\ Cardinality({p \in topo.made : p[1] = sw}) <= 1
        /\ Cardinality({p \in topo.ppnames : p[1] = sw}) <= 1

(***************************************************************************)
(* C39: while no manager call has failed, for every (host, interface) the  *)
(* service called add_hostlink and remove_hostlink in alternation,         *)
(* starting with add; peers holds a link exactly when the last of these    *)
(* calls is an add, and then the link of that add, which is the link most  *)
(* recently reported for the key; an update equal to the link held makes   *)
(* no manager call.                                                        *)
(***************************************************************************)
KeyOf(link) == <<link[1], link[2]>>
CallsFor(key) == SelectSeq(topo.log, LAMBDA c : KeyOf(c[2]) = key)
ReportsFor(key) == SelectSeq(topo.msgs, LAMBDA m : KeyOf(m) = key /\ m[4] # IntZero)
NoManagerFailure == \A f \in topo.failed : f[3] # "ApicResponseNotOk"

C39_TopologyMirror ==
    (topo.op \in {None, "update_link"} /\ NoManagerFailure) =>
        /\ \A key \in PeerKeys :
              LET h == CallsFor(key)
                  r == ReportsFor(key)
              IN  /\ \A i \in DOMAIN h :
                        h[i][1] = IF i % 2 = 1 THEN "add_hostlink" ELSE "remove_hostlink"
                  /\ \A i \in DOMAIN h : i % 2 = 0 => h[i][2] = h[i - 1][2]
                  /\ (topo.peers[key] # None) <=> (Len(h) % 2 = 1)
                  /\ topo.peers[key] # None =>
                        /\ topo.peers[key] = h[Len(h)][2]
                        /\ r # <<>> /\ topo.peers[key] = r[Len(r)]
        /\ (topo.op = "update_link" /\ topo.arg = topo.clink) => Len(topo.log) = topo.mark

\* a link was reported, then another one for the same interface, then the
\* second once more: add, remove, add, and no call for the repetition
C39_Witness ==
    /\ topo.op = "update_link" /\ NoManagerFailure
    /\ topo.arg = topo.clink
    /\ Len(CallsFor(KeyOf(topo.arg))) = 3
    /\ topo.mark = 3
    /\ topo.peers[KeyOf(topo.arg)] = topo.arg

(***************************************************************************)
(* C32: delete_epg_for_network and delete_router_contract remove the local *)
(* row only after the delete on the controller returned: when the call     *)
(* raised, the rows are those from before the call, and when a row is gone *)
(* the call returned and had posted the delete of the row's object.        *)
(***************************************************************************)
DeletePosted(c, params) ==
    \E i \in DOMAIN last.log :
        /\ last.log[i].cls = c /\ last.log[i].status = "deleted"
        /\ last.log[i].params = params

C32_DeleteOrdering ==
    /\ last.op = "delete_epg_for_network" =>
          /\ last.exc.kind # None => epg_db = last.pre.epg_db
          /\ \A e \in last.pre.epg_db \ epg_db :
                /\ last.exc.kind = None
                /\ DeletePosted("fvAEPg", <<last.args[1], app_profile_name, e.epg_id>>)
          /\ contract_db = last.pre.contract_db
    /\ last.op = "delete_router_contract" =>
          /\ last.exc.kind # None => contract_db = last.pre.contract_db
          /\ \A r \in last.pre.contract_db \ contract_db :
                /\ last.exc.kind = None
                /\ DeletePosted("vzBrCP", <<r.tenant_id, r.contract_id>>)
          /\ epg_db = last.pre.epg_db

\* the delete of a recorded EPG was rejected by the controller
C32_Witness ==
    /\ last.op = "delete_epg_for_network"
    /\ last.exc.kind = "ApicResponseNotOk" /\ last.exc.at = 1
    /\ \E e \in epg_db : e.network_id = last.args[2]

(***************************************************************************)
(* C34: whenever the session is at rest and locally authenticated          *)
(* (authentication set), the cookie holds a token; in particular after a   *)
(* login() on an authenticated session that found no endpoint reachable.   *)
(***************************************************************************)
C34_AuthenticatedImpliesToken ==
    (pc = "idle" /\ authentication # None) => cookie \in Tokens

(***************************************************************************)
(* C35: a public operation makes at most one refresh, two logins and two   *)
(* sends, each of at most NumHosts + 1 attempts, and every step of a       *)
(* running operation other than the passing of time advances a bounded     *)
(* measure: the operation ends after at most Ceiling steps.                *)
(***************************************************************************)
CallsOf(call) ==
    Cardinality({i \in DOMAIN trace : trace[i].call = call}) + (IF pc = call THEN 1 ELSE 0)
\* the calls of one operation in their order: refresh, the login of the
\* refresh, the send, the login of the retry, the second send
Stage ==
    CASE pc = "refresh" -> 1
      [] pc = "login" /\ after = "refresh" -> 2
      [] pc = "send" /\ ~refreshed -> 3
      [] pc = "login" /\ after = "resend" -> 4
      [] pc = "send" /\ refreshed -> 5
      [] pc = "login" /\ after = "public" -> 5
      [] OTHER -> 0
Progress == Stage * (NumHosts + 2) + tries
Ceiling == 5 * (NumHosts + 2) + NumHosts

C35_Advances ==
    (pc # "idle" /\ pc' # "idle" /\ now' = now) => Progress' > Progress

C35_BoundedWork ==
    /\ [](/\ CallsOf("refresh") <= 1
          /\ CallsOf("login") <= 2
          /\ CallsOf("send") <= 2
          /\ tries <= NumHosts
          /\ pc # "idle" => Len(attempts) = tries
          /\ Len(done.failed) <= NumHosts + 1
          /\ Progress <= Ceiling)
    /\ [][C35_Advances]_vars

\* the longest operation: the refresh found the token invalid, the login
\* succeeded, the send found the token invalid, the second login succeeded
\* and the second send is at its last attempt
C35_Witness ==
    /\ op.kind = "data" /\ pc = "send" /\ refreshed /\ tries = NumHosts
    /\ CallsOf("refresh") = 1 /\ CallsOf("login") = 2 /\ CallsOf("send") = 2

(***************************************************************************)
(* C37: a manager constructed from a configuration with hosts, a username  *)
(* and a password, on a controller that accepts the login, has logged in   *)
(* with that username and password and is authenticated: its first call    *)
(* passes _check_session.                                                  *)
(***************************************************************************)
C37_EngineLoggedIn ==
    (/\ calc.fn = "APICManager"
     /\ calc.args[1].apic_username # None /\ calc.args[1].apic_password # None
     /\ calc.args[2] = "ok")
        => /\ calc.value.session.logins
                = <<<<calc.args[1].apic_username, calc.args[1].apic_password>>>>
           /\ calc.value.session.authentication # None
           /\ calc.value.first_call = None

C36_ConcurrentEnsure ==
    (\A c \in Callers : /\ race.callers[c].pc = "done"
                        /\ race.callers[c].exc = None
                        /\ race.callers[c].read = "no row")
        => /\ Cardinality(race.objs) = 1
           /\ Cardinality({x \in race.rows : x.router_id = race.router_id}) = 1
           /\ race.callers["A"].ret = race.callers["B"].ret

(***************************************************************************)
(* C40: no two names the map of network ids holds at the same time have    *)
(* the same id, and the id allocated for a new network is greater than     *)
(* every id the map held when it was allocated; also when two              *)
(* create_network calls run at the same time on the shared file.           *)
(***************************************************************************)
C40_UniqueNetworkIds ==
    /\ \A a, b \in MapKeys :
          (a # b /\ ndfc.file[a] # 0 /\ ndfc.file[b] # 0) => ndfc.file[a] # ndfc.file[b]
    /\ \A c \in Callers :
          ndfc.callers[c].op = "create_network" =>
              \A i \in ndfc.callers[c].seen : ndfc.callers[c].network_id > i

=============================================================================
